---- MODULE Spec2Model ----
(***************************************************************************)
(* A model of the front end of the Y compiler: the lexer                   *)
(* (src/frontend/lexer.rs), the recursive-descent parser                   *)
(* (src/frontend/parser.rs), the symbol table (src/sema/utils) and the two *)
(* tree-walking passes (src/sema/passes).                                  *)
(*                                                                         *)
(* The three components are run by three specifications that share the     *)
(* variables: SpecLex runs Lexer.scan_tokens over every bounded source     *)
(* text, SpecParse runs Parser.parse over bounded token sequences and      *)
(* SpecSema runs FullSymbolTablePass and then TypeChecker over bounded     *)
(* modules.  A component that a specification does not run stays idle.     *)
(***************************************************************************)
EXTENDS Integers, Sequences, FiniteSets, TLC

VARIABLES lexer, parser, sema

vars == <<lexer, parser, sema>>

(***************************************************************************)
(* Generic helpers                                                         *)
(***************************************************************************)
Last(s) == s[Len(s)]

RECURSIVE SeqsUpTo(_, _)
SeqsUpTo(S, n) ==
    IF n = 0 THEN {<<>>}
    ELSE LET shorter == SeqsUpTo(S, n - 1)
         IN  shorter \cup {Append(s, x) : s \in {t \in shorter : Len(t) = n - 1}, x \in S}

RECURSIVE Flatten(_)
Flatten(ss) == IF ss = <<>> THEN <<>> ELSE Head(ss) \o Flatten(Tail(ss))

(***************************************************************************)
(* Token (token.rs)                                                        *)
(***************************************************************************)
Span_new(start, end) == [start |-> start, end |-> end]

Span_default == [start |-> 0, end |-> 0]

Token_new(kind, lexeme, line, span) ==
    [kind |-> kind, lexeme |-> lexeme, line |-> line, span |-> span]

(***************************************************************************)
(* LEXER                                                                   *)
(*                                                                         *)
(* The source is a Rust &str: a sequence of UTF-8 bytes that the lexer     *)
(* indexes by byte offset.  A character of the model is a one-character    *)
(* string; an ASCII character is one byte, and the one non-ASCII character *)
(* of the model, U+00E9 (written EACUTE), is two bytes: its lead byte and  *)
(* a continuation byte, written CONT.  Slicing a &str at an offset that is *)
(* no character boundary panics; a panic is pc = "panic".                  *)
(***************************************************************************)
EACUTE == "<e-acute>"

CONT == "<cont>"

NUL == "<nul>"

Digits == {"0", "1", "2", "3", "4", "5", "6", "7", "8", "9"}

Letters == {"a", "b", "c", "d", "e", "f", "g", "h", "i", "j", "k", "l", "m",
            "n", "o", "p", "q", "r", "s", "t", "u", "v", "w", "x", "y", "z"}

\* char::is_digit(10)
is_digit(c) == c \in Digits

\* char::is_alphabetic: the letters of the model, EACUTE included
is_alphabetic(c) == c \in Letters \cup {EACUTE}

\* char::is_alphanumeric
is_alphanumeric(c) == is_alphabetic(c) \/ is_digit(c)

\* The UTF-8 bytes of one character.
Utf8(c) == IF c = EACUTE THEN <<EACUTE, CONT>> ELSE <<c>>

\* The UTF-8 bytes of a text given as a sequence of characters.
Bytes(chars) == Flatten([i \in 1..Len(chars) |-> Utf8(chars[i])])

\* str::is_char_boundary: offset i (0-based) of source src
is_char_boundary(src, i) == i = 0 \/ i >= Len(src) \/ src[i + 1] /= CONT

Lexer_new(source) ==
    [source |-> source, tokens |-> <<>>,
     start |-> 0, current |-> 0, line |-> 1,
     col |-> 1, col_start |-> 1, col_end |-> 1,
     had_error |-> FALSE, error_tokens |-> <<>>,
     reported |-> <<>>, next_error |-> 1, pc |-> "scan"]

Lexer_panic(L) == [L EXCEPT !.pc = "panic"]

Lexer_is_at_end(L) == L.current >= Len(L.source)

\* peek: the character at current, NUL at the end; "panic" when current is
\* inside a character.
Lexer_peek(L) ==
    IF Lexer_is_at_end(L) THEN NUL
    ELSE IF ~is_char_boundary(L.source, L.current) THEN "panic"
    ELSE L.source[L.current + 1]

Lexer_peek_next(L) ==
    IF L.current + 1 >= Len(L.source) THEN NUL
    ELSE IF ~is_char_boundary(L.source, L.current + 1) THEN "panic"
    ELSE L.source[L.current + 2]

\* advance: the state after it; the character it returns is Lexer_peek of
\* the state before.
Lexer_advance(L) ==
    IF L.pc = "panic" THEN L
    ELSE IF Lexer_peek(L) = "panic" THEN Lexer_panic(L)
    ELSE [L EXCEPT !.current = @ + 1, !.col_end = @ + 1]

\* A match_token that reports a match and leaves the character unconsumed.
Lexer_match_token_unconsumed(L, expected) ==
    IF L.pc = "panic" \/ Lexer_is_at_end(L) THEN [ok |-> FALSE, L |-> L]
    ELSE [ok |-> Lexer_peek(L) = expected, L |-> L]

\* match_token: [ok |-> whether it matched, L |-> the state after it]
Lexer_match_token(L, expected) ==
    IF L.pc = "panic" THEN [ok |-> FALSE, L |-> L]
    ELSE IF Lexer_is_at_end(L) THEN [ok |-> FALSE, L |-> L]
    ELSE IF Lexer_peek(L) = "panic" THEN [ok |-> FALSE, L |-> Lexer_panic(L)]
    ELSE IF Lexer_peek(L) /= expected THEN [ok |-> FALSE, L |-> L]
    ELSE [ok |-> TRUE, L |-> [L EXCEPT !.current = @ + 1, !.col_end = @ + 1]]

add_token(L, kind) ==
    IF L.pc = "panic" THEN L
    ELSE IF ~is_char_boundary(L.source, L.start)
            \/ ~is_char_boundary(L.source, L.current) THEN Lexer_panic(L)
    ELSE LET lexeme == SubSeq(L.source, L.start + 1, L.current)
             token == Token_new(kind, lexeme, L.line, Span_new(L.col_start, L.col_end))
         IN  [L EXCEPT !.tokens = Append(@, token),
                       !.error_tokens = IF kind = "Error" THEN Append(@, token) ELSE @]

RECURSIVE scan_string_loop(_, _)
scan_string_loop(L, delimiter) ==
    IF L.pc = "panic" THEN L
    ELSE IF Lexer_peek(L) = "panic" THEN Lexer_panic(L)
    ELSE IF Lexer_peek(L) /= delimiter /\ ~Lexer_is_at_end(L)
         THEN scan_string_loop(
                  Lexer_advance(IF Lexer_peek(L) = "\n"
                                THEN [L EXCEPT !.line = @ + 1] ELSE L),
                  delimiter)
         ELSE L

\* A scan_string without the end-of-input test: the unterminated literal is
\* added as a String token.
scan_string_unchecked(L0, delimiter) ==
    LET L == scan_string_loop(L0, delimiter)
    IN  IF L.pc = "panic" THEN L
        ELSE add_token(IF Lexer_is_at_end(L) THEN L ELSE Lexer_advance(L), "String")

scan_string(L0, delimiter) ==
    LET L == scan_string_loop(L0, delimiter)
    IN  IF L.pc = "panic" THEN L
        ELSE IF Lexer_is_at_end(L) THEN add_token(L, "Error")
        ELSE add_token(Lexer_advance(L), "String")

RECURSIVE scan_digits(_)
scan_digits(L) ==
    IF L.pc = "panic" THEN L
    ELSE IF Lexer_peek(L) = "panic" THEN Lexer_panic(L)
    ELSE IF is_digit(Lexer_peek(L)) THEN scan_digits(Lexer_advance(L))
    ELSE L

scan_number(L0) ==
    LET L == scan_digits(L0)
    IN  IF L.pc = "panic" THEN L
        ELSE IF Lexer_peek(L) = "." /\ Lexer_peek_next(L) = "panic" THEN Lexer_panic(L)
        ELSE IF Lexer_peek(L) = "." /\ is_digit(Lexer_peek_next(L))
             THEN add_token(scan_digits(Lexer_advance(L)), "Float")
             ELSE add_token(L, "Integer")

\* The keyword table of scan_identifier.
Keywords ==
    { <<<<"i", "f">>, "If">>, <<<<"e", "l", "s", "e">>, "Else">>,
      <<<<"w", "h", "i", "l", "e">>, "While">>, <<<<"f", "o", "r">>, "For">>,
      <<<<"b", "r", "e", "a", "k">>, "Break">>,
      <<<<"c", "o", "n", "t", "i", "n", "u", "e">>, "Continue">>,
      <<<<"r", "e", "t", "u", "r", "n">>, "Return">>,
      <<<<"s", "t", "r", "u", "c", "t">>, "Struct">>,
      <<<<"f", "u", "n", "c">>, "Func">>, <<<<"l", "e", "t">>, "Let">>,
      <<<<"p", "u", "b">>, "Pub">>, <<<<"p", "r", "i", "v">>, "Priv">>,
      <<<<"p", "r", "o", "t", "e", "c", "t", "e", "d">>, "Protected">>,
      <<<<"i", "m", "p", "o", "r", "t">>, "Import">>, <<<<"a", "s">>, "As">>,
      <<<<"e", "x", "t", "e", "r", "n">>, "Extern">>,
      <<<<"e", "x", "t", "e", "n", "d">>, "Extend">>,
      <<<<"e", "n", "u", "m">>, "Enum">>, <<<<"m", "a", "t", "c", "h">>, "Match">>,
      <<<<"c", "a", "s", "e">>, "Case">>, <<<<"t", "r", "a", "i", "t">>, "Trait">>,
      <<<<"t", "y", "p", "e">>, "Type">>, <<<<"t", "r", "u", "e">>, "True">>,
      <<<<"f", "a", "l", "s", "e">>, "False">>, <<<<"n", "u", "l", "l">>, "Null">>,
      <<<<"m", "o", "d", "u", "l", "e">>, "Module">>, <<<<"i", "n">>, "In">>,
      <<<<"_">>, "Underscore">> }

keyword_kind(text) ==
    IF \E kw \in Keywords : kw[1] = text
    THEN (CHOOSE kw \in Keywords : kw[1] = text)[2]
    ELSE "Identifier"

RECURSIVE scan_identifier_loop(_)
scan_identifier_loop(L) ==
    IF L.pc = "panic" THEN L
    ELSE IF Lexer_peek(L) = "panic" THEN Lexer_panic(L)
    ELSE IF is_alphanumeric(Lexer_peek(L)) \/ Lexer_peek(L) = "_"
         THEN scan_identifier_loop(Lexer_advance(L))
         ELSE L

scan_identifier(L0) ==
    LET L == scan_identifier_loop(L0)
    IN  IF L.pc = "panic" THEN L
        ELSE IF ~is_char_boundary(L.source, L.start) THEN Lexer_panic(L)
        ELSE add_token(L, keyword_kind(SubSeq(L.source, L.start + 1, L.current)))

RECURSIVE scan_comment(_)
scan_comment(L) ==
    IF L.pc = "panic" THEN L
    ELSE IF Lexer_peek(L) = "panic" THEN Lexer_panic(L)
    ELSE IF Lexer_peek(L) /= "\n" /\ ~Lexer_is_at_end(L)
         THEN scan_comment(Lexer_advance(L))
         ELSE L

\* `if self.match_token(second) { kind2 } else { kind1 }` and add_token.
one_or_two(L, second, kind2, kind1) ==
    LET m == Lexer_match_token(L, second)
    IN  add_token(m.L, IF m.ok THEN kind2 ELSE kind1)

\* `if match(a) { ka } else if match(b) { kb } else { k }` and add_token.
one_of_three(L, a, ka, b, kb, k) ==
    LET m1 == Lexer_match_token(L, a)
        m2 == Lexer_match_token(m1.L, b)
    IN  IF m1.ok THEN add_token(m1.L, ka)
        ELSE add_token(m2.L, IF m2.ok THEN kb ELSE k)

\* The arm of scan_token's match for the character c that advance returned;
\* L is the state after that advance.
scan_token_arm(L, c) ==
    CASE c = "(" -> add_token(L, "Lparen")
      [] c = ")" -> add_token(L, "Rparen")
      [] c = "{" -> add_token(L, "Lbrace")
      [] c = "}" -> add_token(L, "Rbrace")
      [] c = "[" -> add_token(L, "Lbracket")
      [] c = "]" -> add_token(L, "Rbracket")
      [] c = "," -> add_token(L, "Comma")
      [] c = "." -> one_or_two(L, ".", "Range", "Dot")
      [] c = ":" -> add_token(L, "Colon")
      [] c = ";" -> add_token(L, "Semicolon")
      [] c = "+" -> one_or_two(L, "=", "PlusEq", "Plus")
      [] c = "-" -> one_of_three(L, "=", "MinusEq", ">", "Arrow", "Minus")
      [] c = "*" -> one_of_three(L, "=", "StarEq", "*", "Pow", "Star")
      [] c = "/" -> LET m == Lexer_match_token(L, "/")
                    IN  IF m.ok THEN scan_comment(m.L)
                        ELSE one_or_two(m.L, "=", "SlashEq", "Slash")
      [] c = "%" -> one_or_two(L, "=", "ModEq", "Mod")
      [] c = "&" -> one_of_three(L, "=", "AmpEq", "&", "AmpAmp", "Amp")
      [] c = "|" -> one_of_three(L, "=", "PipeEq", "|", "PipePipe", "Pipe")
      [] c = "^" -> one_or_two(L, "=", "CaretEq", "Caret")
      [] c = "#" -> add_token(L, "Hash")
      [] c = "!" -> one_or_two(L, "=", "BangEq", "Bang")
      [] c = "?" -> one_or_two(L, "?", "QuestionQuestion", "Question")
      [] c = "=" -> one_or_two(L, "=", "EqEq", "Eq")
      [] c = "<" -> one_or_two(L, "=", "LtEq", "Lt")
      [] c = ">" -> one_or_two(L, "=", "GtEq", "Gt")
      [] c = "\"" -> scan_string(L, c)
      [] c = "'" -> scan_string(L, c)
      [] c \in {" ", "\r", "\t"} -> L
      [] c = "\n" -> [L EXCEPT !.line = @ + 1, !.col_end = 0, !.col_start = 0]
      [] OTHER -> IF is_digit(c) THEN scan_number(L)
                  ELSE IF is_alphabetic(c) THEN scan_identifier(L)
                  ELSE add_token(L, "Error")

scan_token(L) ==
    IF Lexer_peek(L) = "panic" THEN Lexer_panic(L)
    ELSE scan_token_arm(Lexer_advance(L), Lexer_peek(L))

\* lexerr: one diagnostic printed for token, had_error set.
lexerr(L, token) ==
    [L EXCEPT !.reported = Append(@, token), !.had_error = TRUE]

(***************************************************************************)
(* Lexer.scan_tokens, one step at a time.  pc is the place in scan_tokens: *)
(* "scan" the while loop, "report" the loop over error_tokens, "done"      *)
(* after the return, "panic" after a panic.                                *)
(***************************************************************************)
\* One iteration of `while !self.is_at_end()`.
ScanToken ==
    /\ lexer.pc = "scan"
    /\ ~Lexer_is_at_end(lexer)
    /\ lexer' = scan_token([lexer EXCEPT !.start = lexer.current,
                                         !.col_start = lexer.col_end])
    /\ UNCHANGED <<parser, sema>>

\* The loop's exit: add_token(Eof), and the clone of error_tokens.
AddEof ==
    /\ lexer.pc = "scan"
    /\ Lexer_is_at_end(lexer)
    /\ lexer' = LET L == add_token(lexer, "Eof")
                IN  IF L.pc = "panic" THEN L ELSE [L EXCEPT !.pc = "report"]
    /\ UNCHANGED <<parser, sema>>

\* One iteration of `for token in error_tokens.iter()`.
ReportError ==
    /\ lexer.pc = "report"
    /\ lexer.next_error <= Len(lexer.error_tokens)
    /\ lexer' = [lexerr(lexer, lexer.error_tokens[lexer.next_error])
                    EXCEPT !.next_error = @ + 1]
    /\ UNCHANGED <<parser, sema>>

\* scan_tokens returns.
ScanReturn ==
    /\ lexer.pc = "report"
    /\ lexer.next_error > Len(lexer.error_tokens)
    /\ lexer' = [lexer EXCEPT !.pc = "done"]
    /\ UNCHANGED <<parser, sema>>

\* The bound on the length, in characters, of a source text.
MaxSourceLen == 3

\* The characters source texts are drawn from.
SourceChars ==
    {"=", "!", "<", ">", "&", "|", "*", ".", "-", "?", "+", "/", "%", "^",
     "\"", "'", "a", "1", "_", " ", "\n", "@", EACUTE}

Sources == {Bytes(chars) : chars \in SeqsUpTo(SourceChars, MaxSourceLen)}

IdleLexer == [pc |-> "idle"]

IdleParser == [pc |-> "idle"]

IdleSema == [pc |-> "idle"]

InitLex ==
    /\ lexer \in {Lexer_new(src) : src \in Sources}
    /\ parser = IdleParser
    /\ sema = IdleSema

NextLex == ScanToken \/ AddEof \/ ReportError \/ ScanReturn

SpecLex == InitLex /\ [][NextLex]_vars

(***************************************************************************)
(* AST (ast.rs).  A node is a record whose field `node` names its variant; *)
(* an Option is None or the value itself.                                  *)
(***************************************************************************)
None == [node |-> "None"]

Type_Primitive(name, span) == [node |-> "Primitive", name |-> name, span |-> span]

Type_Named(name, generics, span) ==
    [node |-> "Named", name |-> name, generics |-> generics, span |-> span]

Type_Array(element, size, span) ==
    [node |-> "Array", element |-> element, size |-> size, span |-> span]

Type_Tuple(elements, span) == [node |-> "Tuple", elements |-> elements, span |-> span]

Type_Function(params, return_type, span) ==
    [node |-> "Function", params |-> params, return_type |-> return_type, span |-> span]

Type_TypeVar(name, span) == [node |-> "TypeVar", name |-> name, span |-> span]

Type_Error(span) == [node |-> "Error", span |-> span]

Literal_Integer(value, span) == [lit |-> "Integer", value |-> value, span |-> span]

Literal_Float(value, span) == [lit |-> "Float", value |-> value, span |-> span]

Literal_Bool(value, span) == [lit |-> "Bool", value |-> value, span |-> span]

Literal_Null(span) == [lit |-> "Null", span |-> span]

Literal_Token(token, span) == [lit |-> "Token", token |-> token, span |-> span]

Expr_Identifier(token, span) == [node |-> "Identifier", token |-> token, span |-> span]

Expr_Literal(lit) == [node |-> "Literal", lit |-> lit]

Expr_Binary(left, op, right, span) ==
    [node |-> "Binary", left |-> left, op |-> op, right |-> right, span |-> span]

Expr_Call(callee, args, generic_args, span) ==
    [node |-> "Call", callee |-> callee, args |-> args,
     generic_args |-> generic_args, span |-> span]

Expr_Error == [node |-> "Error"]

Statement_Let(name, ty, value, span) ==
    [node |-> "Let", name |-> name, ty |-> ty, value |-> value, span |-> span]

Statement_Expr(expr) == [node |-> "Expr", expr |-> expr]

Statement_Return(value, span) == [node |-> "Return", value |-> value, span |-> span]

Statement_Block(stmts, span) == [node |-> "Block", stmts |-> stmts, span |-> span]

Parameter_new(name, ty, span) == [name |-> name, ty |-> ty, span |-> span]

Field_new(access, name, ty, span) ==
    [access |-> access, name |-> name, ty |-> ty, span |-> span]

EnumVariant_new(name, fields, span) == [name |-> name, fields |-> fields, span |-> span]

Function_new(access, name, params, return_type, body, span, is_method) ==
    [access |-> access, name |-> name, params |-> params, return_type |-> return_type,
     body |-> body, span |-> span, is_method |-> is_method]

\* A StatementKind: kind is the variant, item what it holds.
StatementKind(kind, item) == [kind |-> kind, item |-> item]

(***************************************************************************)
(* SYMBOL TABLE (symbol_table.rs, sema/utils/mod.rs)                       *)
(***************************************************************************)
Symbol_new(name, kind, ty, span, struct_fields, enum_variants) ==
    [name |-> name, kind |-> kind, ty |-> ty, span |-> span,
     struct_fields |-> struct_fields, enum_variants |-> enum_variants]

\* A Scope is its HashMap: a function from the names it holds to symbols.
Scope_new == <<>>

Scope_insert(scope, symbol) ==
    [n \in DOMAIN scope \cup {symbol.name} |->
        IF n = symbol.name THEN symbol ELSE scope[n]]

Scope_get(scope, name) == IF name \in DOMAIN scope THEN scope[name] ELSE None

\* The table of `#[derive(Default)]`: a Vec without a scope.
SymbolTable_default == [scopes |-> <<>>]

SymbolTable_new == [scopes |-> <<Scope_new>>]

enter_scope(table) == [table EXCEPT !.scopes = Append(@, Scope_new)]

exit_scope(table) ==
    [table EXCEPT !.scopes = IF @ = <<>> THEN @ ELSE SubSeq(@, 1, Len(@) - 1)]

SymbolTable_insert(table, symbol) ==
    IF table.scopes = <<>> THEN table
    ELSE [table EXCEPT !.scopes[Len(table.scopes)] = Scope_insert(@, symbol)]

\* A lookup that scans the scopes from the base outwards, without `.rev()`.
SymbolTable_get_outermost(table, name) ==
    LET holders == {i \in 1..Len(table.scopes) : name \in DOMAIN table.scopes[i]}
    IN  IF holders = {} THEN None
        ELSE table.scopes[CHOOSE i \in holders : \A j \in holders : i <= j][name]

\* get: the innermost scope that holds the name decides.
SymbolTable_get(table, name) ==
    LET holders == {i \in 1..Len(table.scopes) : name \in DOMAIN table.scopes[i]}
    IN  IF holders = {} THEN None
        ELSE table.scopes[CHOOSE i \in holders : \A j \in holders : j <= i][name]

MultiStageSymbolTable_new ==
    [types |-> SymbolTable_new, values |-> SymbolTable_new,
     enum_variants |-> SymbolTable_new, struct_fields |-> SymbolTable_new]

RECURSIVE insert_all(_, _)
\* `for symbol in symbols { table.insert(symbol) }`
insert_all(table, symbols) ==
    IF symbols = <<>> THEN table
    ELSE insert_all(SymbolTable_insert(table, Head(symbols)), Tail(symbols))

\* The Parameter symbol both passes insert for a parameter.
parameter_symbol(param) ==
    Symbol_new(param.name.lexeme, "Parameter", param.ty, param.name.span, None, None)

parameter_symbols(function) ==
    [k \in 1..Len(function.params) |-> parameter_symbol(function.params[k])]

(***************************************************************************)
(* TYPE CHECKER (type_checker.rs)                                          *)
(***************************************************************************)
\* TypeChecker::error: the entry pushed on errors (the formatted string is
\* kept as its two parts).
type_error(message, span) == [span |-> span, message |-> message]

\* A comparison of the two outermost shapes only: names, sizes and lengths,
\* without the descent into the component types.
check_type_compatibility_shallow(expected, actual) ==
    CASE expected.node = "Primitive" /\ actual.node = "Primitive" ->
            expected.name.lexeme = actual.name.lexeme
      [] expected.node = "Named" /\ actual.node = "Named" ->
            /\ expected.name.lexeme = actual.name.lexeme
            /\ Len(expected.generics) = Len(actual.generics)
      [] expected.node = "Array" /\ actual.node = "Array" ->
            expected.size = actual.size
      [] expected.node = "Tuple" /\ actual.node = "Tuple" ->
            Len(expected.elements) = Len(actual.elements)
      [] expected.node = "Function" /\ actual.node = "Function" ->
            Len(expected.params) = Len(actual.params)
      [] expected.node = "TypeVar" /\ actual.node = "TypeVar" ->
            expected.name.lexeme = actual.name.lexeme
      [] OTHER -> FALSE

RECURSIVE check_type_compatibility(_, _)
check_type_compatibility(expected, actual) ==
    LET pointwise(a, b) ==
            /\ Len(a) = Len(b)
            /\ \A k \in 1..Len(a) : check_type_compatibility(a[k], b[k])
    IN  CASE expected.node = "Primitive" /\ actual.node = "Primitive" ->
                expected.name.lexeme = actual.name.lexeme
          [] expected.node = "Named" /\ actual.node = "Named" ->
                /\ expected.name.lexeme = actual.name.lexeme
                /\ pointwise(expected.generics, actual.generics)
          [] expected.node = "Array" /\ actual.node = "Array" ->
                /\ expected.size = actual.size
                /\ check_type_compatibility(expected.element, actual.element)
          [] expected.node = "Tuple" /\ actual.node = "Tuple" ->
                pointwise(expected.elements, actual.elements)
          [] expected.node = "Function" /\ actual.node = "Function" ->
                /\ pointwise(expected.params, actual.params)
                /\ check_type_compatibility(expected.return_type, actual.return_type)
          [] expected.node = "TypeVar" /\ actual.node = "TypeVar" ->
                expected.name.lexeme = actual.name.lexeme
          [] OTHER -> FALSE

\* The Primitive type infer_type makes for a literal or a promoted operand.
inferred_primitive(lexeme, span) ==
    Type_Primitive(Token_new("Identifier", lexeme, 0, span), span)

literal_type(lit) ==
    inferred_primitive(CASE lit.lit = "Integer" -> "int"
                         [] lit.lit = "Float" -> "float"
                         [] lit.lit = "Bool" -> "bool"
                         [] lit.lit = "Null" -> "null"
                         [] lit.lit = "Token" -> "string",
                       lit.span)

RECURSIVE infer_type(_, _, _)
RECURSIVE infer_arguments(_, _, _, _, _, _)
\* infer_type: [ty |-> the Option<Type> returned, errors |-> errors after it],
\* for the value table `values` and the error list `errors` before it.
infer_type(values, errors, expr) ==
    CASE expr.node = "Identifier" ->
            LET symbol == SymbolTable_get(values, expr.token.lexeme)
            IN  IF symbol /= None THEN [ty |-> symbol.ty, errors |-> errors]
                ELSE [ty |-> None,
                      errors |-> Append(errors,
                          type_error(<<"Undefined variable", expr.token.lexeme>>,
                                     expr.token.span))]
      [] expr.node = "Literal" -> [ty |-> literal_type(expr.lit), errors |-> errors]
      [] expr.node = "Binary" ->
            LET l == infer_type(values, errors, expr.left)
                r == infer_type(values, l.errors, expr.right)
            IN  IF l.ty.node = "Primitive" /\ r.ty.node = "Primitive"
                THEN LET n1 == l.ty.name.lexeme
                         n2 == r.ty.name.lexeme
                     IN  IF (n1 = "int" /\ n2 = "int") \/ (n1 = "float" /\ n2 = "float")
                         THEN [ty |-> l.ty, errors |-> r.errors]
                         ELSE IF (n1 = "int" /\ n2 = "float") \/ (n1 = "float" /\ n2 = "int")
                         THEN [ty |-> inferred_primitive("float", expr.span),
                               errors |-> r.errors]
                         ELSE IF n1 = "bool" /\ n2 = "bool" /\ expr.op.lexeme \in {"&&", "||"}
                         THEN [ty |-> l.ty, errors |-> r.errors]
                         ELSE [ty |-> None,
                               errors |-> Append(r.errors,
                                   type_error(<<"Invalid binary operation",
                                                n1, expr.op.lexeme, n2>>, expr.span))]
                ELSE [ty |-> None,
                      errors |-> Append(r.errors,
                          type_error(<<"Invalid operands for binary operation">>,
                                     expr.span))]
      [] expr.node = "Call" ->
            LET c == infer_type(values, errors, expr.callee)
            IN  IF c.ty.node = "Function"
                THEN IF Len(c.ty.params) /= Len(expr.args)
                     THEN [ty |-> None,
                           errors |-> Append(c.errors,
                               type_error(<<"Expected arguments, got",
                                            Len(c.ty.params), Len(expr.args)>>,
                                          expr.span))]
                     ELSE infer_arguments(values, c.errors, c.ty, expr.args, 1, expr.span)
                ELSE [ty |-> None,
                      errors |-> Append(c.errors,
                          type_error(<<"Expression is not callable">>, expr.span))]
      [] OTHER -> [ty |-> None, errors |-> errors]

\* The loop of the Call arm over params.iter().zip(args.iter()), from the
\* k-th pair on; it returns at the first incompatible argument.
infer_arguments(values, errors, fn_ty, args, k, span) ==
    IF k > Len(args) THEN [ty |-> fn_ty.return_type, errors |-> errors]
    ELSE LET a == infer_type(values, errors, args[k])
         IN  IF a.ty /= None /\ ~check_type_compatibility(fn_ty.params[k], a.ty)
             THEN [ty |-> None,
                   errors |-> Append(a.errors,
                       type_error(<<"Type mismatch in function call">>, span))]
             ELSE infer_arguments(values, a.errors, fn_ty, args, k + 1, span)

(***************************************************************************)
(* THE TWO PASSES (populate_table.rs, type_checker.rs, visitor.rs)         *)
(*                                                                         *)
(* sema.pc is the pass that runs: "populate" while                          *)
(* FullSymbolTablePass::visit_module runs, "typecheck" while               *)
(* TypeChecker::visit_module runs, "done" after it returned, "overflow"    *)
(* after the call stack was exhausted.  sema.i is the index in module.stmts*)
(* of the declaration walk_module visits next, and sema.stack holds one    *)
(* frame for every activation of an overridden visit_function or           *)
(* visit_statement that has not returned.                                  *)
(*                                                                         *)
(* Inside `impl Visitor for P`, the call `Visitor::visit_function(self,    *)
(* function)` is `<P as Visitor>::visit_function`: the override itself,    *)
(* not the trait's default body.  So the override's activation calls the   *)
(* override again with the same node, and the statements after the call    *)
(* (exit_scope, the restore of current_return_type) and the default walk   *)
(* (walk_function, walk_statement) are never reached; the model has no     *)
(* action for them.  The same holds for TypeChecker::visit_statement.      *)
(***************************************************************************)
\* The bound on the call stack: the activations it holds before it overflows.
StackLimit == 3

\* The methods of a declaration that walk_statement_kind, walk_trait and
\* walk_extend hand to visit_function: the function itself, or the methods.
functions_of(decl) ==
    CASE decl.kind = "Function" -> <<decl.item>>
      [] decl.kind \in {"Trait", "Extend"} -> decl.item.methods
      [] OTHER -> <<>>

\* FullSymbolTablePass::visit_struct, visit_enum and visit_statement, and the
\* defaults for the other declarations that hold no function: the table after
\* the visit of decl.
populate_declaration(table, decl) ==
    CASE decl.kind = "Struct" ->
            [table EXCEPT !.types = SymbolTable_insert(@,
                Symbol_new(decl.item.name.lexeme, "Struct", None, decl.item.name.span,
                           decl.item.fields, None))]
      [] decl.kind = "Enum" ->
            [table EXCEPT !.types = SymbolTable_insert(@,
                Symbol_new(decl.item.name.lexeme, "Enum", None, decl.item.name.span,
                           None, decl.item.variants))]
      [] decl.kind = "Statement" /\ decl.item.node = "Let" ->
            [table EXCEPT !.values = SymbolTable_insert(@,
                Symbol_new(decl.item.name.lexeme, "Variable", decl.item.ty,
                           decl.item.name.span, None, None))]
      [] OTHER -> table

\* FullSymbolTablePass::visit_function up to its call of visit_function.
populate_function_prologue(table, function) ==
    LET registered == SymbolTable_insert(table.values,
                          Symbol_new(function.name.lexeme, "Function",
                                     function.return_type, function.name.span, None, None))
    IN  [table EXCEPT !.values =
            insert_all(enter_scope(registered), parameter_symbols(function))]

\* TypeChecker::visit_function up to its call of visit_function: the scope
\* and the parameters.
typecheck_function_prologue(table, function) ==
    [table EXCEPT !.values = insert_all(enter_scope(@), parameter_symbols(function))]

\* TypeChecker::visit_statement up to its call of visit_statement: the error
\* list after the match on the statement.
typecheck_statement_errors(values, errors, current_return_type, statement) ==
    CASE statement.node = "Let" /\ statement.value /= None ->
            LET v == infer_type(values, errors, statement.value)
            IN  IF v.ty /= None /\ statement.ty /= None
                    /\ ~check_type_compatibility(statement.ty, v.ty)
                THEN Append(v.errors, type_error(<<"Type mismatch in let binding">>,
                                                 statement.span))
                ELSE v.errors
      [] statement.node = "Return" /\ current_return_type /= None
            /\ statement.value /= None ->
            LET v == infer_type(values, errors, statement.value)
            IN  IF v.ty /= None /\ ~check_type_compatibility(current_return_type, v.ty)
                THEN Append(v.errors, type_error(<<"Return type mismatch">>,
                                                 statement.span))
                ELSE v.errors
      [] OTHER -> errors

Sema_new(module, pc) ==
    [pc |-> pc, module |-> module, i |-> 1, stack |-> <<>>,
     table |-> MultiStageSymbolTable_new,
     errors |-> <<>>, current_return_type |-> None]

\* The declaration walk_module is at.
CurrentDecl == sema.module[sema.i]

InDeclaration == sema.pc \in {"populate", "typecheck"} /\ sema.i <= Len(sema.module)

\* The function the next activation of visit_function is called with: the
\* one of the innermost activation, or the first one of the declaration.
NextFunction ==
    IF sema.stack /= <<>> THEN Last(sema.stack).function
    ELSE functions_of(CurrentDecl)[1]

CallsVisitFunction ==
    /\ InDeclaration
    /\ Len(sema.stack) < StackLimit
    /\ IF sema.stack /= <<>> THEN Last(sema.stack).fn = "visit_function"
       ELSE functions_of(CurrentDecl) /= <<>>

CallsVisitStatement ==
    /\ InDeclaration
    /\ Len(sema.stack) < StackLimit
    /\ IF sema.stack /= <<>> THEN Last(sema.stack).fn = "visit_statement"
       ELSE CurrentDecl.kind = "Statement"

\* FullSymbolTablePass visits a declaration that holds no function.
PopulateDeclaration ==
    /\ sema.pc = "populate"
    /\ InDeclaration
    /\ functions_of(CurrentDecl) = <<>>
    /\ sema' = [sema EXCEPT !.table = populate_declaration(@, CurrentDecl),
                            !.i = @ + 1]
    /\ UNCHANGED <<lexer, parser>>

\* One activation of FullSymbolTablePass::visit_function.
PopulateVisitFunction ==
    /\ sema.pc = "populate"
    /\ CallsVisitFunction
    /\ sema' = [sema EXCEPT
            !.table = populate_function_prologue(@, NextFunction),
            !.stack = Append(@, [fn |-> "visit_function", function |-> NextFunction,
                                 old_return_type |-> None])]
    /\ UNCHANGED <<lexer, parser>>

\* FullSymbolTablePass::visit_module returns; main hands the table to a new
\* TypeChecker.
PopulateReturn ==
    /\ sema.pc = "populate"
    /\ sema.i > Len(sema.module)
    /\ sema' = [sema EXCEPT !.pc = "typecheck", !.i = 1]
    /\ UNCHANGED <<lexer, parser>>

\* TypeChecker visits a declaration that is no statement and holds no function:
\* the default walk, which changes nothing.
TypeCheckDeclaration ==
    /\ sema.pc = "typecheck"
    /\ InDeclaration
    /\ functions_of(CurrentDecl) = <<>>
    /\ CurrentDecl.kind /= "Statement"
    /\ sema' = [sema EXCEPT !.i = @ + 1]
    /\ UNCHANGED <<lexer, parser>>

\* One activation of TypeChecker::visit_function.
TypeCheckVisitFunction ==
    /\ sema.pc = "typecheck"
    /\ CallsVisitFunction
    /\ sema' = [sema EXCEPT
            !.current_return_type = NextFunction.return_type,
            !.table = typecheck_function_prologue(@, NextFunction),
            !.stack = Append(@, [fn |-> "visit_function", function |-> NextFunction,
                                 old_return_type |-> sema.current_return_type])]
    /\ UNCHANGED <<lexer, parser>>

\* One activation of TypeChecker::visit_statement.
TypeCheckVisitStatement ==
    /\ sema.pc = "typecheck"
    /\ CallsVisitStatement
    /\ LET statement == IF sema.stack /= <<>> THEN Last(sema.stack).statement
                        ELSE CurrentDecl.item
       IN  sema' = [sema EXCEPT
               !.errors = typecheck_statement_errors(sema.table.values, @,
                              sema.current_return_type, statement),
               !.stack = Append(@, [fn |-> "visit_statement", statement |-> statement])]
    /\ UNCHANGED <<lexer, parser>>

\* TypeChecker::visit_module returns.
TypeCheckReturn ==
    /\ sema.pc = "typecheck"
    /\ sema.i > Len(sema.module)
    /\ sema' = [sema EXCEPT !.pc = "done"]
    /\ UNCHANGED <<lexer, parser>>

\* The next activation does not fit on the call stack: the process aborts.
StackOverflow ==
    /\ InDeclaration
    /\ Len(sema.stack) = StackLimit
    /\ sema' = [sema EXCEPT !.pc = "overflow"]
    /\ UNCHANGED <<lexer, parser>>

(***************************************************************************)
(* The modules the passes are run on: up to MaxDecls declarations, each    *)
(* one of the declarations below, written on line k of the source.         *)
(***************************************************************************)
MaxDecls == 3

Ident(lexeme, line, start) ==
    Token_new("Identifier", lexeme, line, Span_new(start, start + 1))

PrimitiveType(lexeme, line, start) ==
    Type_Primitive(Token_new("Identifier", lexeme, line, Span_new(start, start + 1)),
                   Span_new(start, start + 2))

\* The type parse_function gives a function written without `->`.
VoidType ==
    Type_Primitive(Token_new("Identifier", "void", 1, Span_default), Span_default)

VariableNames == <<"x", "y", "z", "w", "u">>

\* func f(a: int) -> int { return a; }
FunctionF(k) ==
    Function_new("None", Ident("f", k, 6),
        <<Parameter_new(Ident("a", k, 8), PrimitiveType("int", k, 11), Span_new(11, 14))>>,
        PrimitiveType("int", k, 19),
        Statement_Block(<<Statement_Return(
            Expr_Identifier(Ident("a", k, 32), Span_new(32, 33)), Span_new(32, 35))>>,
            Span_new(25, 37)),
        Span_new(6, 37), FALSE)

\* func g() { }
FunctionG(k) ==
    Function_new("None", Ident("g", k, 6), <<>>, VoidType,
        Statement_Block(<<>>, Span_new(12, 14)), Span_new(6, 14), FALSE)

\* func m(a: bool) { }, a method
MethodM(k) ==
    Function_new("None", Ident("m", k, 16),
        <<Parameter_new(Ident("a", k, 18), PrimitiveType("bool", k, 21), Span_new(21, 25))>>,
        VoidType, Statement_Block(<<>>, Span_new(28, 30)), Span_new(16, 30), TRUE)

\* func l() -> int { let t: int = 1; return t; }
FunctionL(k) ==
    Function_new("None", Ident("l", k, 6), <<>>, PrimitiveType("int", k, 13),
        Statement_Block(
            <<Statement_Let(Ident("t", k, 23), PrimitiveType("int", k, 26),
                            Expr_Literal(Literal_Integer(1, Span_new(32, 33))),
                            Span_new(23, 35)),
              Statement_Return(Expr_Identifier(Ident("t", k, 42), Span_new(42, 43)),
                               Span_new(42, 45))>>,
            Span_new(17, 47)),
        Span_new(6, 47), FALSE)

\* let <name>: int = true; on line k: a binding whose initializer does not
\* fit the declared type (the name is the k-th variable name).
IllTypedLet(k) ==
    StatementKind("Statement", Statement_Let(Ident(VariableNames[k], k, 5),
        PrimitiveType("int", k, 8),
        Expr_Literal(Literal_Bool(TRUE, Span_new(14, 18))), Span_new(5, 20)))

Declarations(k) ==
    { IllTypedLet(k),
      \* let v: int = 1;
      StatementKind("Statement", Statement_Let(Ident("v", k, 5),
          PrimitiveType("int", k, 8),
          Expr_Literal(Literal_Integer(1, Span_new(14, 15))), Span_new(5, 17))),
      \* let a: bool;
      StatementKind("Statement", Statement_Let(Ident("a", k, 5),
          PrimitiveType("bool", k, 8), None, Span_new(5, 13))),
      \* f(1);
      StatementKind("Statement", Statement_Expr(Expr_Call(
          Expr_Identifier(Ident("f", k, 1), Span_new(1, 2)),
          <<Expr_Literal(Literal_Integer(1, Span_new(3, 4)))>>, <<>>, Span_new(3, 4)))),
      \* return 1;
      StatementKind("Statement", Statement_Return(
          Expr_Literal(Literal_Integer(1, Span_new(8, 9))), Span_new(8, 11))),
      StatementKind("Function", FunctionF(k)),
      StatementKind("Function", FunctionG(k)),
      StatementKind("Function", FunctionL(k)),
      \* struct S { x: int }
      StatementKind("Struct",
          [access |-> "None", name |-> Ident("S", k, 8),
           fields |-> <<Field_new("None", Ident("x", k, 12),
                                  PrimitiveType("int", k, 15), Span_new(15, 19))>>,
           generics |-> <<>>, span |-> Span_new(8, 21)]),
      \* enum E { A }
      StatementKind("Enum",
          [access |-> "None", name |-> Ident("E", k, 6),
           variants |-> <<EnumVariant_new(Ident("A", k, 10), <<>>, Span_new(10, 12))>>,
           span |-> Span_new(6, 14)]),
      \* trait T { }
      StatementKind("Trait",
          [access |-> "None", name |-> Ident("T", k, 7), methods |-> <<>>,
           generics |-> <<>>, span |-> Span_new(7, 13)]),
      \* extend S { func m(a: bool) { } }
      StatementKind("Extend",
          [name |-> Ident("S", k, 8), trait_name |-> None, methods |-> <<MethodM(k)>>,
           first_generics |-> <<>>, second_generics |-> <<>>, span |-> Span_new(8, 32)]),
      \* import "p" as q;
      StatementKind("Import",
          [path |-> Token_new("String", "\"p\"", k, Span_new(8, 11)),
           alias |-> Ident("q", k, 15), span |-> Span_new(8, 18)]) }

RECURSIVE Modules(_)
\* The statement lists of exactly n declarations.
Modules(n) ==
    IF n = 0 THEN {<<>>}
    ELSE {Append(m, d) : m \in Modules(n - 1), d \in Declarations(n)}

\* main runs the population pass and then the type checker on its table; a
\* TypeChecker::new() may also be run on a module with its own, empty table.
InitSema ==
    /\ \E n \in 0..MaxDecls, pc \in {"populate", "typecheck"} :
          sema \in {Sema_new(m, pc) : m \in Modules(n)}
    /\ lexer = IdleLexer
    /\ parser = IdleParser

NextSema ==
    \/ PopulateDeclaration
    \/ PopulateVisitFunction
    \/ PopulateReturn
    \/ TypeCheckDeclaration
    \/ TypeCheckVisitFunction
    \/ TypeCheckVisitStatement
    \/ TypeCheckReturn
    \/ StackOverflow

SpecSema == InitSema /\ [][NextSema]_vars

(***************************************************************************)
(* PARSER (parser.rs)                                                      *)
(*                                                                         *)
(* A parser state p is the record of the Parser's fields (current counts   *)
(* from 0 as in the source; tokens is a sequence, so that the token at     *)
(* index i is tokens[i + 1]; source is the text, kept as the words of its  *)
(* declarations), with more fields: diagnostics, the messages printed by   *)
(* error in order; status, which is "ok" while the parser runs, "panic"    *)
(* after an index outside the token slice, and "diverge" once it is in a   *)
(* loop that it cannot leave; and stack, ret and pc, the call stack of     *)
(* parse described below.  A parsing function without statements or        *)
(* expressions is an operator from the state before it to [p |-> the state *)
(* after it, v |-> the node it returns]; after a panic or a divergence no  *)
(* later step has an effect.                                               *)
(***************************************************************************)
R(p, v) == [p |-> p, v |-> v]

Parser_new(tokens, source) ==
    [tokens |-> tokens, source |-> source, current |-> 0, had_error |-> FALSE, errors |-> 0,
     diagnostics |-> <<>>,
     current_modifier |-> "None", type_stack |-> 0, generic_stack |-> 0,
     type_var_only |-> FALSE,
     module |-> [name |-> Token_new("Identifier", "module", 1, Span_default),
                 imports |-> <<>>, stmts |-> <<>>, span |-> Span_default],
     status |-> "ok", stack |-> <<[fn |-> "parse", at |-> "start", v |-> <<>>]>>,
     ret |-> [node |-> "None"], pc |-> "run"]

Parser_peek(p) == p.tokens[p.current + 1]

\* What previous() is read as once the parser has panicked.
NoToken == Token_new("Error", "", 0, Span_default)

\* tokens[current - 1].  With current = 0 the index is outside the slice: the
\* parser reaches that only in advance, which panics there.
Parser_previous(p) == IF p.current = 0 THEN NoToken ELSE p.tokens[p.current]

Parser_is_at_end(p) == Parser_peek(p).kind = "Eof"

Parser_check(p, kind) ==
    IF p.status /= "ok" \/ Parser_is_at_end(p) THEN FALSE
    ELSE Parser_peek(p).kind = kind

\* advance: the state after it; the token it returns is Parser_previous of
\* that state.
Parser_advance(p) ==
    IF p.status /= "ok" THEN p
    ELSE LET q == IF ~Parser_is_at_end(p) THEN [p EXCEPT !.current = @ + 1] ELSE p
         IN  IF q.current = 0 THEN [q EXCEPT !.status = "panic"] ELSE q

Parser_match_token(p, kind) ==
    IF Parser_check(p, kind) THEN [ok |-> TRUE, p |-> Parser_advance(p)]
    ELSE [ok |-> FALSE, p |-> p]

\* The first of kinds that match_token accepts, tried in order.
Parser_match_any(p, kinds) ==
    IF p.status = "ok" /\ ~Parser_is_at_end(p) /\ Parser_peek(p).kind \in kinds
    THEN [ok |-> TRUE, p |-> Parser_advance(p)]
    ELSE [ok |-> FALSE, p |-> p]

Parser_error(p, message) ==
    IF p.status /= "ok" THEN p
    ELSE [p EXCEPT !.had_error = TRUE, !.errors = @ + 1,
                   !.diagnostics = Append(@, message)]

\* consume: the state after it; the token it returns is Parser_previous of
\* that state.
consume(p, kind, message) ==
    IF Parser_check(p, kind) THEN Parser_advance(p)
    ELSE Parser_advance(Parser_error(p, message))

synchronise_stops == {"Func", "Struct", "Enum", "Trait", "Import", "Extend",
                      "Let", "If", "While", "For", "Match", "Return", "Break",
                      "Continue"}

RECURSIVE synchronise_loop(_)
synchronise_loop(p) ==
    IF p.status /= "ok" \/ Parser_is_at_end(p) THEN p
    ELSE IF Parser_previous(p).kind = "Semicolon" THEN p
    ELSE IF Parser_peek(p).kind \in synchronise_stops THEN p
    ELSE synchronise_loop(Parser_advance(p))

synchronise(p) == synchronise_loop(Parser_advance(p))

\* A loop `while !self.check(closer)` entered or re-entered in state p: at
\* Eof check is false and advance moves nothing, so the loop is never left.
stuck_at_end(p) == p.status = "ok" /\ Parser_is_at_end(p)

diverge(p) == [p EXCEPT !.status = "diverge"]

\* The span from start to the start of the token the parser is at.
span_to_peek(p, start) == Span_new(start, Parser_peek(p).span.start)

\* The modifier a leading pub / priv / protected sets, or none.
modifier_of ==
    [k \in {"Pub", "Priv", "Protected"} |->
        CASE k = "Pub" -> "Public" [] k = "Priv" -> "Private" [] OTHER -> "Protected"]

PrimitiveNames == {"int", "float", "string", "char", "bool"}

\* The bound on a parameter list in parse_parameters and finish_call.
MaxParameters == 255

\* str::parse::<i64> on the lexemes of the Integer tokens used here: Ok(val),
\* or Err for a number that does not fit in 64 bits.
parse_i64(lexeme) ==
    CASE lexeme = "0" -> [ok |-> TRUE, val |-> 0]
      [] lexeme = "1" -> [ok |-> TRUE, val |-> 1]
      [] lexeme = "2" -> [ok |-> TRUE, val |-> 2]
      [] lexeme = "3" -> [ok |-> TRUE, val |-> 3]
      [] lexeme = "007" -> [ok |-> TRUE, val |-> 7]
      [] OTHER -> [ok |-> FALSE]

\* str::parse::<f64> on the lexemes of the Float tokens used here: the value
\* m * 10^-e as <<m, e>> with the smallest e.
parse_f64(lexeme) ==
    CASE lexeme = "0.5" -> <<5, 1>>
      [] lexeme = "1.5" -> <<15, 1>>
      [] lexeme = "1.50" -> <<15, 1>>
      [] OTHER -> <<1, 0>>

\* if !check(closer) { consume(Comma, message) }
separator(p, closer, message) ==
    IF ~Parser_check(p, closer) THEN consume(p, "Comma", message) ELSE p

RECURSIVE type_expression(_)
RECURSIVE type_generics_loop(_, _)
RECURSIVE type_array_open(_, _)
RECURSIVE type_array_close(_, _, _, _)
RECURSIVE type_tuple_loop(_, _)
RECURSIVE generic_parameters_loop(_, _, _)
RECURSIVE parse_parameters_loop(_, _, _)
RECURSIVE pattern(_)
RECURSIVE pattern_tuple_loop(_, _)
RECURSIVE pattern_struct_loop(_, _)
RECURSIVE cast_loop(_, _)
RECURSIVE property_access_loop(_, _)
RECURSIVE closure_parameters_loop(_, _)
RECURSIVE struct_fields_loop(_, _)
RECURSIVE parse_struct_loop(_, _)
RECURSIVE enum_variant_fields_loop(_, _)
RECURSIVE parse_enum_loop(_, _)

\* A close of a list that leaves generic_stack as it is.
generics_close_uncounted(l) ==
    R(consume(l.p, "Gt", "Expected '>' after generic type"), l.v)

\* consume(Gt) after the generics l of a `<` ... `>` list; generic_stack -= 1
generics_close(l) ==
    R([consume(l.p, "Gt", "Expected '>' after generic type") EXCEPT !.generic_stack = @ - 1],
      l.v)

\* loop { generics.push(type_expression()); if !match(Comma) { break } }
type_generics_loop(p, generics) ==
    LET next(t, m) ==
            IF m.ok THEN type_generics_loop(m.p, Append(generics, t.v))
            ELSE R(m.p, Append(generics, t.v))
        comma(t) == next(t, Parser_match_token(t.p, "Comma"))
    IN  comma(type_expression(p))

\* while match(Lbracket) { array_depth += 1 }
type_array_open(p, depth) ==
    LET m == Parser_match_token(p, "Lbracket")
    IN  IF m.ok THEN type_array_open(m.p, depth + 1) ELSE R(p, depth)

\* for _ in 0..array_depth { consume(Rbracket); inner = Array { inner } }
type_array_close(p, inner, depth, start) ==
    IF depth = 0 THEN R(p, inner)
    ELSE LET q == consume(p, "Rbracket", "Expected ']' after type")
         IN  type_array_close(q, Type_Array(inner, None, span_to_peek(q, start)),
                              depth - 1, start)

\* while !check(Rparen) { elements.push(type_expression()); ... }
type_tuple_loop(p, elements) ==
    LET next(t) == type_tuple_loop(separator(t.p, "Rparen", "Expected ',' after type"),
                                   Append(elements, t.v))
    IN  IF p.status /= "ok" \/ Parser_check(p, "Rparen") THEN R(p, elements)
        ELSE IF stuck_at_end(p) THEN R(diverge(p), elements)
        ELSE next(type_expression(p))

\* The arm of type_expression for a name that is not a primitive: its
\* generics g, then TypeVar or Named.
type_named(g, name, start) ==
    IF g.v = <<>> /\ g.p.generic_stack > 0
    THEN R([g.p EXCEPT !.type_stack = @ - 1],
           Type_TypeVar(name, span_to_peek(g.p, start)))
    ELSE R([g.p EXCEPT !.type_stack = @ - 1],
           Type_Named(name, g.v, span_to_peek(g.p, start)))

\* The arm of type_expression for `(`: the elements l, then a tuple or,
\* with `->`, a function type.
type_tuple(l, start) ==
    LET function(ret) == R(ret.p, Type_Function(l.v, ret.v, span_to_peek(ret.p, start)))
        end(q, arrow) ==
            IF arrow.ok THEN function(type_expression(arrow.p))
            ELSE R(q, Type_Tuple(l.v, span_to_peek(q, start)))
        close(q) == end(q, Parser_match_token(q, "Arrow"))
    IN  close(consume(l.p, "Rparen", "Expected ')' after type"))

type_expression(p0) ==
    LET start == Parser_peek(p0).span.start
        array(open) ==
            LET close(inner) == type_array_close(inner.p, inner.v, open.v, start)
                paren == Parser_match_token(open.p, "Lparen")
                q == Parser_error(open.p, "Expected type expression")
            IN  IF open.v > 0 THEN close(type_expression(open.p))
                ELSE IF paren.ok THEN type_tuple(type_tuple_loop(paren.p, <<>>), start)
                ELSE R([q EXCEPT !.type_stack = @ - 1], Type_Error(span_to_peek(q, start)))
        named(p2, id) ==
            LET name == Parser_previous(id.p)
                lt == Parser_match_token(id.p, "Lt")
            IN  IF id.ok /\ name.lexeme \in PrimitiveNames
                THEN R([id.p EXCEPT !.type_stack = @ - 1],
                       Type_Primitive(name, span_to_peek(id.p, start)))
                ELSE IF id.ok /\ lt.ok
                THEN type_named(generics_close(type_generics_loop(
                                    [lt.p EXCEPT !.generic_stack = @ + 1], <<>>)),
                                name, start)
                ELSE IF id.ok THEN type_named(R(id.p, <<>>), name, start)
                ELSE array(type_array_open(p2, 0))
        any(p2) == named(p2, Parser_match_token(p2, "Identifier"))
        variable(p1, var) ==
            IF p1.type_var_only /\ var.ok
            THEN R([var.p EXCEPT !.type_stack = @ - 1],
                   Type_TypeVar(Parser_previous(var.p), span_to_peek(var.p, start)))
            ELSE IF p1.type_var_only
            THEN any(Parser_error(p1, "Generic expression only accepts type variables here"))
            ELSE any(p1)
        enter(p1) == variable(p1, Parser_match_token(p1, "Identifier"))
    IN  enter([p0 EXCEPT !.type_stack = @ + 1])

\* The `<` T, U `>` lists of parse_struct, parse_trait and parse_extend:
\* while !check(Gt) { type_var_only = true; type_expression(); ... }
generic_parameters_loop(p, generics, only_type_variables) ==
    LET next(t) ==
            generic_parameters_loop(
                separator([t.p EXCEPT !.type_var_only =
                              IF only_type_variables THEN FALSE ELSE @],
                          "Gt", "Expected ',' after generic type"),
                Append(generics, t.v), only_type_variables)
    IN  IF p.status /= "ok" \/ Parser_check(p, "Gt") THEN R(p, generics)
        ELSE IF stuck_at_end(p) THEN R(diverge(p), generics)
        ELSE next(type_expression([p EXCEPT !.type_var_only =
                                      IF only_type_variables THEN TRUE ELSE @]))

\* if match(Lt) { generic_stack += 1; <the loop>; consume(Gt); generic_stack -= 1 }
generic_parameters(p, generics, only_type_variables) ==
    LET lt == Parser_match_token(p, "Lt")
    IN  IF ~lt.ok THEN R(p, generics)
        ELSE generics_close(generic_parameters_loop([lt.p EXCEPT !.generic_stack = @ + 1],
                                                    generics, only_type_variables))

\* One pass of the loop of parse_parameters: a parameter, and the `,` when
\* the list goes on.
parse_parameter(p, tkn) ==
    LET end(name, ty) ==
            R(separator(ty.p, tkn, "Expected ',' after parameter"),
              Parameter_new(name, ty.v, Span_new(Parser_previous(ty.p).span.start,
                                                 Parser_peek(ty.p).span.start)))
        type(p1) ==
            end(Parser_previous(p1),
                type_expression(consume(p1, "Colon", "Expected ':' after parameter name")))
    IN  type(consume(p, "Identifier", "Expected parameter name"))

\* The passes of the loop at Eof.  No pass moves the parser there, so every
\* pass pushes the same parameter and prints the same messages, until
\* params.len() > 255 ends the loop: `times` passes of the one pass `one`.
parse_parameters_at_end(p, params, tkn) ==
    LET times == MaxParameters + 1 - Len(params)
        repeat(one, printed) ==
            R(Parser_error(
                  [p EXCEPT
                      !.had_error = TRUE,
                      !.errors = @ + times * Len(printed),
                      !.diagnostics = @ \o [k \in 1..(times * Len(printed)) |->
                                               printed[((k - 1) % Len(printed)) + 1]]],
                  "Too many parameters, maximum is 255"),
              params \o [k \in 1..times |-> one.v])
        pass(one) == repeat(one, SubSeq(one.p.diagnostics, Len(p.diagnostics) + 1,
                                        Len(one.p.diagnostics)))
    IN  pass(parse_parameter(p, tkn))

\* One test of `while !self.check(tkn)` and, when it holds, one pass of the
\* loop: the parser and the parameters after it, and whether the loop ended.
parse_parameters_pass(p, params, tkn) ==
    LET ended(r) == [p |-> r.p, v |-> r.v, done |-> TRUE]
        pushed(one) == [p |-> one.p, v |-> Append(params, one.v), done |-> FALSE]
    IN  IF p.status /= "ok" \/ Parser_check(p, tkn) THEN ended(R(p, params))
        ELSE IF Len(params) > MaxParameters
        THEN ended(R(Parser_error(p, "Too many parameters, maximum is 255"), params))
        ELSE IF Parser_is_at_end(p) THEN ended(parse_parameters_at_end(p, params, tkn))
        ELSE pushed(parse_parameter(p, tkn))

parse_parameters_loop(p, params, tkn) ==
    LET next(r) == IF r.done THEN R(r.p, r.v) ELSE parse_parameters_loop(r.p, r.v, tkn)
    IN  next(parse_parameters_pass(p, params, tkn))

parse_parameters(p, tkn) == parse_parameters_loop(p, <<>>, tkn)

(***************************************************************************)
(* The nodes of expressions, statements and patterns                       *)
(***************************************************************************)
assignment_operators ==
    {"PlusEq", "MinusEq", "StarEq", "SlashEq", "ModEq", "AmpEq", "PipeEq", "CaretEq"}

Expr_Unary(op, expr, span) == [node |-> "Unary", op |-> op, expr |-> expr, span |-> span]

Expr_Field(base, field, span) ==
    [node |-> "Field", base |-> base, field |-> field, span |-> span]

Expr_Index(base, index, span) ==
    [node |-> "Index", base |-> base, index |-> index, span |-> span]

Expr_Assignment(left, op, right, span) ==
    [node |-> "Assignment", left |-> left, op |-> op, right |-> right, span |-> span]

Expr_StructInit(name, fields, span) ==
    [node |-> "StructInit", name |-> name, fields |-> fields, span |-> span]

Expr_Array(elements, span) == [node |-> "Array", elements |-> elements, span |-> span]

Expr_Tuple(elements, span) == [node |-> "Tuple", elements |-> elements, span |-> span]

Expr_Cast(expr, ty, span) == [node |-> "Cast", expr |-> expr, ty |-> ty, span |-> span]

Expr_Closure(params, body, ty, span) ==
    [node |-> "Closure", params |-> params, body |-> body, ty |-> ty, span |-> span]

Expr_Grouping(expr, span) == [node |-> "Grouping", expr |-> expr, span |-> span]

Statement_Break(span) == [node |-> "Break", span |-> span]

Statement_Continue(span) == [node |-> "Continue", span |-> span]

Statement_If(cond, then_branch, else_branch, span) ==
    [node |-> "If", cond |-> cond, then_branch |-> then_branch,
     else_branch |-> else_branch, span |-> span]

Statement_While(cond, body, span) ==
    [node |-> "While", cond |-> cond, body |-> body, span |-> span]

Statement_For(var, iter, body, span) ==
    [node |-> "For", var |-> var, iter |-> iter, body |-> body, span |-> span]

Statement_Match(expr, cases, span) ==
    [node |-> "Match", expr |-> expr, cases |-> cases, span |-> span]

Case_new(pat, body, span) == [pattern |-> pat, body |-> body, span |-> span]

Pattern_Identifier(name, span) == [node |-> "Identifier", name |-> name, span |-> span]

Pattern_Literal(lit) == [node |-> "Literal", lit |-> lit]

Pattern_Wildcard(span) == [node |-> "Wildcard", span |-> span]

Pattern_Tuple(patterns, span) == [node |-> "Tuple", patterns |-> patterns, span |-> span]

Pattern_Struct(fields, span) == [node |-> "Struct", fields |-> fields, span |-> span]

Pattern_Error == [node |-> "Error"]

pattern_tuple_loop(p, patterns) ==
    LET next(e) == pattern_tuple_loop(separator(e.p, "Rparen", "Expected ',' after pattern"),
                                      Append(patterns, e.v))
    IN  IF p.status /= "ok" \/ Parser_check(p, "Rparen") THEN R(p, patterns)
        ELSE IF stuck_at_end(p) THEN R(diverge(p), patterns)
        ELSE next(pattern(p))

pattern_struct_loop(p, fields) ==
    LET next(name, e) ==
            pattern_struct_loop(separator(e.p, "Rbrace", "Expected ',' after field"),
                                Append(fields, <<name, e.v>>))
        field(p1) ==
            next(Parser_previous(p1),
                 pattern(consume(p1, "Colon", "Expected ':' after field name")))
    IN  IF p.status /= "ok" \/ Parser_check(p, "Rbrace") THEN R(p, fields)
        ELSE IF stuck_at_end(p) THEN R(diverge(p), fields)
        ELSE field(consume(p, "Identifier", "Expected field name"))

pattern(p) ==
    LET start == Parser_peek(p).span.start
        m == Parser_match_any(p, {"Identifier", "Integer", "String", "Char", "True",
                                  "False", "Lparen", "Lbrace", "Underscore"})
        token == Parser_previous(m.p)
        tuple(l, q) == R(q, Pattern_Tuple(l.v, span_to_peek(q, start)))
        tuple_close(l) == tuple(l, consume(l.p, "Rparen", "Expected ')' after pattern"))
        struct(l, q) ==
            R(q, Pattern_Struct(l.v, Span_new(Parser_previous(q).span.start,
                                              Parser_peek(q).span.start)))
        struct_close(l) == struct(l, consume(l.p, "Rbrace", "Expected '}' after pattern"))
    IN  IF ~m.ok THEN R(Parser_error(p, "Expected pattern"), Pattern_Error)
        ELSE CASE token.kind = "Identifier" -> R(m.p, Pattern_Identifier(token, token.span))
               [] token.kind = "Integer" ->
                    IF parse_i64(token.lexeme).ok
                    THEN R(m.p, Pattern_Literal(Literal_Integer(parse_i64(token.lexeme).val,
                                                                token.span)))
                    ELSE R(Parser_error(m.p, "Invalid integer literal"), Pattern_Error)
               [] token.kind \in {"String", "Char"} ->
                    R(m.p, Pattern_Literal(Literal_Token(token, token.span)))
               [] token.kind \in {"True", "False"} ->
                    R(m.p, Pattern_Literal(Literal_Bool(token.lexeme = "true",
                                                        span_to_peek(m.p, start))))
               [] token.kind = "Lparen" -> tuple_close(pattern_tuple_loop(m.p, <<>>))
               [] token.kind = "Lbrace" -> struct_close(pattern_struct_loop(m.p, <<>>))
               [] token.kind = "Underscore" ->
                    R(m.p, Pattern_Wildcard(span_to_peek(m.p, start)))

parse_break_statement(p) ==
    LET start == Parser_peek(p).span.start
        q == consume(p, "Semicolon", "Expected ';' after 'break'")
    IN  R(q, Statement_Break(span_to_peek(q, start)))

parse_continue_statement(p) ==
    LET start == Parser_peek(p).span.start
        q == consume(p, "Semicolon", "Expected ';' after 'continue'")
    IN  R(q, Statement_Continue(span_to_peek(q, start)))

(***************************************************************************)
(* Declarations without statements or expressions                          *)
(***************************************************************************)
struct_fields_loop(p, fields) ==
    LET next(access, name, ty) ==
            struct_fields_loop(
                separator(ty.p, "Rbrace", "Expected ',' after field"),
                Append(fields, Field_new(access, name, ty.v,
                                   Span_new(Parser_previous(ty.p).span.start,
                                            Parser_peek(ty.p).span.start))))
        type(access, p1) ==
            next(access, Parser_previous(p1),
                 type_expression(consume(p1, "Colon", "Expected ':' after field name")))
        field(m) ==
            type(IF m.ok THEN modifier_of[Parser_previous(m.p).kind] ELSE "None",
                 consume(m.p, "Identifier", "Expected field name"))
    IN  IF p.status /= "ok" \/ Parser_check(p, "Rbrace") THEN R(p, fields)
        ELSE IF stuck_at_end(p) THEN R(diverge(p), fields)
        ELSE field(Parser_match_any(p, {"Pub", "Priv", "Protected"}))

struct_fields(p) == struct_fields_loop(p, <<>>)

\* while !check(Rbrace) { fields = struct_fields(); ... }
parse_struct_loop(p, fields) ==
    LET next(f) == parse_struct_loop(separator(f.p, "Rbrace", "Expected ',' after field"),
                                     f.v)
    IN  IF p.status /= "ok" \/ Parser_check(p, "Rbrace") THEN R(p, fields)
        ELSE IF stuck_at_end(p) THEN R(diverge(p), fields)
        ELSE next(struct_fields(p))

parse_struct(p) ==
    LET end(name, generics, fields, q) ==
            R(q, [access |-> p.current_modifier, name |-> name, fields |-> fields.v,
                  generics |-> generics.v,
                  span |-> span_to_peek(q, Parser_peek(p).span.start)])
        close(name, generics, fields) ==
            end(name, generics, fields,
                consume(fields.p, "Rbrace", "Expected '}' after struct declaration"))
        body(name, generics) ==
            close(name, generics,
                  parse_struct_loop(consume(generics.p, "Lbrace",
                                            "Expected '{' after struct name"), <<>>))
        named(p1) == body(Parser_previous(p1), generic_parameters(p1, <<>>, TRUE))
    IN  named(consume([p EXCEPT !.current_modifier = "None"], "Identifier",
                      "Expected struct name"))

enum_variant_fields_loop(p, fields) ==
    LET next(t) ==
            enum_variant_fields_loop(
                separator(t.p, "Rparen", "Expected ',' after enum variant field"),
                Append(fields, t.v))
    IN  IF p.status /= "ok" \/ Parser_check(p, "Rparen") THEN R(p, fields)
        ELSE IF stuck_at_end(p) THEN R(diverge(p), fields)
        ELSE next(type_expression(p))

parse_enum_variant(p) ==
    LET end(name, fields) ==
            R(fields.p, EnumVariant_new(name, fields.v,
                            span_to_peek(fields.p, Parser_peek(p).span.start)))
        close(l) == R(consume(l.p, "Rparen", "Expected ')' after enum variant fields"), l.v)
        variant(p1, paren) ==
            end(Parser_previous(p1),
                IF paren.ok THEN close(enum_variant_fields_loop(paren.p, <<>>))
                ELSE R(p1, <<>>))
        named(p1) == variant(p1, Parser_match_token(p1, "Lparen"))
    IN  named(consume(p, "Identifier", "Expected enum variant name"))

parse_enum_loop(p, variants) ==
    LET next(v) ==
            parse_enum_loop(separator(v.p, "Rbrace", "Expected ',' after enum variant"),
                            Append(variants, v.v))
    IN  IF p.status /= "ok" \/ Parser_check(p, "Rbrace") THEN R(p, variants)
        ELSE IF stuck_at_end(p) THEN R(diverge(p), variants)
        ELSE next(parse_enum_variant(p))

parse_enum(p) ==
    LET end(name, variants, q) ==
            R(q, [access |-> p.current_modifier, name |-> name, variants |-> variants.v,
                  span |-> span_to_peek(q, Parser_peek(p).span.start)])
        close(name, variants) ==
            end(name, variants,
                consume(variants.p, "Rbrace", "Expected '}' after enum declaration"))
        named(p1) ==
            close(Parser_previous(p1),
                  parse_enum_loop(consume(p1, "Lbrace", "Expected '{' after enum name"),
                                  <<>>))
    IN  named(consume([p EXCEPT !.current_modifier = "None"], "Identifier",
                      "Expected enum name"))

parse_import(p) ==
    LET start == Parser_peek(p).span.start
        p1 == consume(p, "String", "Expected import name")
        path == Parser_previous(p1)
        p2 == consume(p1, "As", "Expected 'as' after import name")
        p3 == consume(p2, "Identifier", "Expected alias name")
        alias == Parser_previous(p3)
        q == consume(p3, "Semicolon", "Expected ';' after import declaration")
    IN  R(q, [path |-> path, alias |-> alias, span |-> span_to_peek(q, start)])

parse_module(p) ==
    LET start == Parser_peek(p).span.start
        q == consume(p, "Identifier", "Expected module name")
    IN  R(q, [name |-> Parser_previous(q), imports |-> <<>>, stmts |-> <<>>,
              span |-> span_to_peek(q, start)])

(***************************************************************************)
(* The parsing functions that reach expression or parse_statement, and     *)
(* through them themselves, are run a step at a time.  p.stack is the call *)
(* stack of these functions: a frame holds the name of the function, the   *)
(* place `at` where it goes on, and in v its arguments and locals.  p.ret  *)
(* is the value the last of them returned.  A step runs the function of    *)
(* the top frame from `at` up to its next call of such a function or its   *)
(* return; the functions it calls on the way (consume, type_expression,    *)
(* parse_parameters, ...) are the operators above.                         *)
(***************************************************************************)
Frame(fn, v) == [fn |-> fn, at |-> "start", v |-> v]

Top(p) == p.stack[Len(p.stack)]

\* The frame f where the function goes on at `at` with the locals v.
Resume(f, at, v) == [fn |-> f.fn, at |-> at, v |-> v]

\* The function of the top frame goes on in state p as frame f says.
Goto(p, f) == [p EXCEPT !.stack[Len(p.stack)] = f]

\* It calls fn with the arguments v and goes on as f says when fn returns.
Call(p, f, fn, v) == [p EXCEPT !.stack = Append([@ EXCEPT ![Len(@)] = f], Frame(fn, v))]

\* `return self.fn(v)`: what fn returns is what the function returns.
TailCall(p, fn, v) == [p EXCEPT !.stack[Len(p.stack)] = Frame(fn, v)]

Return(p, value) ==
    [p EXCEPT !.stack = SubSeq(@, 1, Len(@) - 1), !.ret = value]

\* The return of what an operator r == [p, v] computed.
Finish(r) == Return(r.p, r.v)

parse(p, f) ==
    CASE f.at = "start" ->
            LET header(m) ==
                    Goto(consume(IF m.p.status = "ok" THEN [m.p EXCEPT !.module = m.v]
                                 ELSE m.p,
                                 "Semicolon", "Expected ';' after module declaration"),
                         Resume(f, "while", <<>>))
            IN  header(parse_module(
                    consume(p, "Module", "Expected 'module' at the start of the file")))
      [] f.at = "while" ->
            IF Parser_is_at_end(p) THEN Return(p, p.module)
            ELSE Call(p, Resume(f, "stmt", <<>>), "declaration", <<>>)
      [] f.at = "stmt" ->
            IF p.had_error
            THEN Goto([synchronise(p) EXCEPT !.had_error = FALSE], Resume(f, "while", <<>>))
            ELSE Goto([p EXCEPT !.module.stmts = Append(@, p.ret)],
                      Resume(f, "while", <<>>))

wrap(tag, r) == R(r.p, StatementKind(tag, r.v))

declaration(p, f) ==
    CASE f.at = "start" ->
            LET m == Parser_match_any(p, {"Pub", "Priv", "Protected"})
                p1 == IF m.ok
                      THEN [m.p EXCEPT
                               !.current_modifier = modifier_of[Parser_previous(m.p).kind]]
                      ELSE p
                d == Parser_match_any(p1, {"Func", "Struct", "Enum", "Extend", "Trait",
                                           "Import"})
                kind == Parser_previous(d.p).kind
            IN  IF d.ok
                THEN CASE kind = "Func" ->
                            Call(d.p, Resume(f, "wrap", "Function"),
                                 "parse_function", [kind |-> "func"])
                       [] kind = "Struct" -> Finish(wrap("Struct", parse_struct(d.p)))
                       [] kind = "Enum" -> Finish(wrap("Enum", parse_enum(d.p)))
                       [] kind = "Extend" ->
                            Call(d.p, Resume(f, "wrap", "Extend"), "parse_extend", <<>>)
                       [] kind = "Trait" ->
                            Call(d.p, Resume(f, "wrap", "Trait"), "parse_trait", <<>>)
                       [] kind = "Import" -> Finish(wrap("Import", parse_import(d.p)))
                ELSE LET p2 == IF p1.current_modifier /= "None"
                               THEN Parser_error(p1,
                                        "Access modifier must be used with a declaration")
                               ELSE p1
                     IN  Call([p2 EXCEPT !.current_modifier = "None"],
                              Resume(f, "wrap", "Statement"), "parse_statement", <<>>)
      [] f.at = "wrap" -> Return(p, StatementKind(f.v, p.ret))

parse_function(p, f) ==
    LET body(return_type) ==
            Call(consume(return_type.p, "Lbrace", "Expected '{' after function declaration"),
                 Resume(f, "body",
                        [is_method |-> (f.v.kind = "method"),
                         start |-> f.v.start,
                         access |-> f.v.access,
                         name |-> f.v.name,
                         params |-> f.v.params,
                         return_type |-> return_type.v]),
                 "parse_block", <<>>)
        result(p3, arrow) ==
            body(IF arrow.ok THEN type_expression(arrow.p) ELSE R(p3, VoidType))
        arrow(p3) == result(p3, Parser_match_token(p3, "Arrow"))
        list(p2) == arrow(consume(p2, "Rparen", "Expected ')' after function parameters"))
        \* parse_parameters(Rparen), one pass of its loop at a time
        pass(r) ==
            IF r.done THEN list(r.p)
            ELSE Goto(r.p, Resume(f, "params", [f.v EXCEPT !.params = r.v]))
        named(p1) ==
            Goto(consume(p1, "Lparen", "Expected '(' after function name"),
                 Resume(f, "params",
                        [kind |-> f.v.kind,
                         start |-> Parser_peek(p).span.start,
                         access |-> p.current_modifier,
                         name |-> Parser_previous(p1),
                         params |-> <<>>]))
    IN  CASE f.at = "start" ->
                named(consume([p EXCEPT !.current_modifier = "None"], "Identifier",
                              "Expected function name"))
          [] f.at = "params" -> pass(parse_parameters_pass(p, f.v.params, "Rparen"))
          [] f.at = "body" ->
                Return(p, Function_new(f.v.access, f.v.name, f.v.params, f.v.return_type,
                                       p.ret, span_to_peek(p, f.v.start), f.v.is_method))

parse_trait(p, f) ==
    CASE f.at = "start" ->
            LET head(p1, generics) ==
                    Goto(consume(generics.p, "Lbrace", "Expected '{' after trait name"),
                         Resume(f, "while",
                                [start |-> Parser_peek(p).span.start,
                                 access |-> p.current_modifier,
                                 name |-> Parser_previous(p1),
                                 generics |-> generics.v,
                                 methods |-> <<>>]))
                named(p1) == head(p1, generic_parameters(p1, <<>>, TRUE))
            IN  named(consume([p EXCEPT !.current_modifier = "None"], "Identifier",
                              "Expected trait name"))
      [] f.at = "while" ->
            IF Parser_check(p, "Rbrace")
            THEN LET q == consume(p, "Rbrace", "Expected '}' after trait declaration")
                 IN  Return(q, [access |-> f.v.access, name |-> f.v.name,
                                methods |-> f.v.methods, generics |-> f.v.generics,
                                span |-> span_to_peek(q, f.v.start)])
            ELSE IF Parser_is_at_end(p) THEN diverge(p)
            ELSE Call(p, Resume(f, "push", f.v), "parse_function", [kind |-> "method"])
      [] f.at = "push" ->
            Goto(separator(p, "Rbrace", "Expected ',' after trait method"),
                 Resume(f, "while", [f.v EXCEPT !.methods = Append(@, p.ret)]))

parse_extend(p, f) ==
    CASE f.at = "start" ->
            LET head(p1, first_generics, for, p2, second_generics) ==
                    Goto(consume(second_generics.p, "Lbrace",
                                 "Expected '{' after extend declaration"),
                         Resume(f, "while",
                                [start |-> Parser_peek(p).span.start,
                                 first_name |-> Parser_previous(p1),
                                 first_generics |-> first_generics.v,
                                 second_name |-> IF for.ok THEN Parser_previous(p2) ELSE None,
                                 second_generics |-> second_generics.v,
                                 methods |-> <<>>]))
                second(p1, first_generics, for, p2) ==
                    head(p1, first_generics, for, p2,
                         IF for.ok THEN generic_parameters(p2, <<>>, TRUE) ELSE R(p2, <<>>))
                trait(p1, first_generics, for) ==
                    second(p1, first_generics, for,
                           IF for.ok THEN consume(for.p, "Identifier", "Expected trait name")
                           ELSE first_generics.p)
                first(p1, first_generics) ==
                    trait(p1, first_generics, Parser_match_token(first_generics.p, "For"))
                named(p1) == first(p1, generic_parameters(p1, <<>>, TRUE))
            IN  named(consume(p, "Identifier", "Expected struct or trait name"))
      [] f.at = "while" ->
            IF Parser_check(p, "Rbrace")
            THEN LET q == consume(p, "Rbrace", "Expected '}' after extend declaration")
                 IN  IF f.v.second_name = None
                     THEN Return(q, [name |-> f.v.first_name, trait_name |-> None,
                                     methods |-> f.v.methods,
                                     first_generics |-> f.v.first_generics,
                                     second_generics |-> <<>>,
                                     span |-> span_to_peek(q, f.v.start)])
                     ELSE Return(q, [name |-> f.v.second_name,
                                     trait_name |-> f.v.first_name,
                                     methods |-> f.v.methods,
                                     first_generics |-> f.v.first_generics,
                                     second_generics |-> f.v.second_generics,
                                     span |-> span_to_peek(q, f.v.start)])
            ELSE IF Parser_is_at_end(p) THEN diverge(p)
            ELSE LET m == Parser_match_any(p, {"Pub", "Priv", "Protected"})
                     p1 == IF m.ok
                           THEN [m.p EXCEPT !.current_modifier =
                                               modifier_of[Parser_previous(m.p).kind]]
                           ELSE p
                 IN  Call(consume(p1, "Func", "Expected 'func' before extend method"),
                          Resume(f, "push", f.v), "parse_function", [kind |-> "method"])
      [] f.at = "push" ->
            Goto(p, Resume(f, "while", [f.v EXCEPT !.methods = Append(@, p.ret)]))

parse_block(p, f) ==
    CASE f.at = "start" ->
            Goto(p, Resume(f, "while",
                           [start |-> Parser_peek(p).span.start, stmts |-> <<>>]))
      [] f.at = "while" ->
            IF Parser_check(p, "Rbrace")
            THEN LET q == consume(p, "Rbrace", "Expected '}' after block")
                 IN  Return(q, Statement_Block(f.v.stmts, span_to_peek(q, f.v.start)))
            ELSE IF Parser_is_at_end(p) THEN diverge(p)
            ELSE Call(p, Resume(f, "push", f.v), "parse_statement", <<>>)
      [] f.at = "push" ->
            Goto(p, Resume(f, "while", [f.v EXCEPT !.stmts = Append(@, p.ret)]))

parse_statement(p, f) ==
    LET m == Parser_match_any(p, {"Let", "If", "While", "For", "Match", "Return",
                                  "Break", "Continue", "Lbrace"})
        kind == Parser_previous(m.p).kind
    IN  IF ~m.ok THEN TailCall(p, "parse_expression_statement", <<>>)
        ELSE CASE kind = "Let" -> TailCall(m.p, "parse_let_statement", <<>>)
               [] kind = "If" -> TailCall(m.p, "parse_if_statement", <<>>)
               [] kind = "While" -> TailCall(m.p, "parse_while_statement", <<>>)
               [] kind = "For" -> TailCall(m.p, "parse_for_statement", <<>>)
               [] kind = "Match" -> TailCall(m.p, "parse_match_statement", <<>>)
               [] kind = "Return" -> TailCall(m.p, "parse_return_statement", <<>>)
               [] kind = "Break" -> Finish(parse_break_statement(m.p))
               [] kind = "Continue" -> Finish(parse_continue_statement(m.p))
               [] kind = "Lbrace" -> TailCall(m.p, "parse_block", <<>>)

parse_let_statement(p, f) ==
    LET end(q, v) ==
            LET q1 == consume(q, "Semicolon", "Expected ';' after variable declaration")
            IN  Return(q1, Statement_Let(v.name, v.ty, v.value, span_to_peek(q1, v.start)))
        value(eq, ty, v) ==
            IF eq.ok THEN Call(eq.p, Resume(f, "value", v), "expression", <<>>)
            ELSE end(ty.p, v)
        typed(p1, ty) ==
            value(Parser_match_token(ty.p, "Eq"), ty,
                  [start |-> Parser_peek(p).span.start, name |-> Parser_previous(p1),
                   ty |-> ty.v, value |-> None])
        type(p1, colon) ==
            typed(p1, IF colon.ok THEN type_expression(colon.p) ELSE R(p1, None))
        named(p1) == type(p1, Parser_match_token(p1, "Colon"))
    IN  CASE f.at = "start" -> named(consume(p, "Identifier", "Expected variable name"))
          [] f.at = "value" -> end(p, [f.v EXCEPT !.value = p.ret])

parse_if_statement(p, f) ==
    CASE f.at = "start" ->
            Call(consume(p, "Lparen", "Expected '(' after 'if'"),
                 Resume(f, "cond", [start |-> Parser_peek(p).span.start]),
                 "expression", <<>>)
      [] f.at = "cond" ->
            Call(consume(p, "Rparen", "Expected ')' after 'if' condition"),
                 Resume(f, "then", [start |-> f.v.start, cond |-> p.ret]),
                 "parse_statement", <<>>)
      [] f.at = "then" ->
            LET else == Parser_match_token(p, "Else")
            IN  IF else.ok
                THEN Call(else.p,
                          Resume(f, "else", [start |-> f.v.start, cond |-> f.v.cond,
                                             then_branch |-> p.ret]),
                          "parse_statement", <<>>)
                ELSE Return(p, Statement_If(f.v.cond, p.ret, None,
                                            span_to_peek(p, f.v.start)))
      [] f.at = "else" ->
            Return(p, Statement_If(f.v.cond, f.v.then_branch, p.ret,
                                   span_to_peek(p, f.v.start)))

parse_while_statement(p, f) ==
    CASE f.at = "start" ->
            Call(consume(p, "Lparen", "Expected '(' after 'while'"),
                 Resume(f, "cond", [start |-> Parser_peek(p).span.start]),
                 "expression", <<>>)
      [] f.at = "cond" ->
            Call(consume(p, "Rparen", "Expected ')' after 'while' condition"),
                 Resume(f, "body", [start |-> f.v.start, cond |-> p.ret]),
                 "parse_statement", <<>>)
      [] f.at = "body" ->
            Return(p, Statement_While(f.v.cond, p.ret, span_to_peek(p, f.v.start)))

parse_for_statement(p, f) ==
    CASE f.at = "start" ->
            LET p1 == consume(p, "Lparen", "Expected '(' after 'for'")
                p2 == consume(p1, "Identifier", "Expected variable name")
            IN  Call(consume(p2, "In", "Expected 'in' after variable name"),
                     Resume(f, "iter", [start |-> Parser_peek(p).span.start,
                                        var |-> Parser_previous(p2), iter |-> None]),
                     "expression", <<>>)
      [] f.at = "iter" ->
            Call(consume(p, "Rparen", "Expected ')' after 'for' condition"),
                 Resume(f, "body", [f.v EXCEPT !.iter = p.ret]), "parse_statement", <<>>)
      [] f.at = "body" ->
            Return(p, Statement_For(f.v.var, f.v.iter, p.ret,
                                    span_to_peek(p, f.v.start)))

parse_match_statement(p, f) ==
    CASE f.at = "start" ->
            Call(consume(p, "Lparen", "Expected '(' after 'match'"),
                 Resume(f, "cond", [start |-> Parser_peek(p).span.start]),
                 "expression", <<>>)
      [] f.at = "cond" ->
            LET p1 == consume(p, "Rparen", "Expected ')' after 'match' condition")
            IN  Goto(consume(p1, "Lbrace", "Expected '{' after 'match' condition"),
                     Resume(f, "while",
                            [start |-> f.v.start, cond |-> p.ret, cases |-> <<>>]))
      [] f.at = "while" ->
            IF Parser_check(p, "Rbrace")
            THEN LET q == consume(p, "Rbrace", "Expected '}' after match statement")
                 IN  Return(q, Statement_Match(f.v.cond, f.v.cases,
                                               span_to_peek(q, f.v.start)))
            ELSE IF Parser_is_at_end(p) THEN diverge(p)
            ELSE Call(p, Resume(f, "push", f.v), "parse_case", <<>>)
      [] f.at = "push" ->
            Goto(separator(p, "Rbrace", "Expected ',' after match case"),
                 Resume(f, "while", [f.v EXCEPT !.cases = Append(@, p.ret)]))

parse_case(p, f) ==
    LET arrow(pat) ==
            Call(consume(pat.p, "Arrow", "Expected '->' after match case"),
                 Resume(f, "body", [start |-> Parser_peek(p).span.start,
                                    pattern |-> pat.v]),
                 "parse_statement", <<>>)
    IN  CASE f.at = "start" -> arrow(pattern(p))
          [] f.at = "body" ->
                Return(p, Case_new(f.v.pattern, p.ret, span_to_peek(p, f.v.start)))

parse_return_statement(p, f) ==
    LET end(q, start, value) ==
            LET q1 == consume(q, "Semicolon", "Expected ';' after return statement")
            IN  Return(q1, Statement_Return(value, span_to_peek(q1, start)))
    IN  CASE f.at = "start" ->
                IF ~Parser_check(p, "Semicolon")
                THEN Call(p, Resume(f, "value", [start |-> Parser_peek(p).span.start]),
                          "expression", <<>>)
                ELSE end(p, Parser_peek(p).span.start, None)
          [] f.at = "value" -> end(p, f.v.start, p.ret)

parse_expression_statement(p, f) ==
    CASE f.at = "start" -> Call(p, Resume(f, "expr", <<>>), "expression", <<>>)
      [] f.at = "expr" ->
            Return(consume(p, "Semicolon", "Expected ';' after expression"),
                   Statement_Expr(p.ret))

(***************************************************************************)
(* Expressions                                                             *)
(***************************************************************************)
expression(p, f) == TailCall(p, "assignment", <<>>)

\* span: Span::new(self.previous().span.start, self.peek().span.start)
span_from_previous(p) == Span_new(Parser_previous(p).span.start, Parser_peek(p).span.start)

assignment(p, f) ==
    CASE f.at = "start" -> Call(p, Resume(f, "expr", <<>>), "logical_or", <<>>)
      [] f.at = "expr" ->
            IF Parser_peek(p).kind \in assignment_operators
            THEN LET q == Parser_advance(p)
                 IN  Call(q, Resume(f, "value", [expr |-> p.ret, op |-> Parser_previous(q)]),
                          "assignment", <<>>)
            ELSE Return(p, p.ret)
      [] f.at = "value" ->
            Return(p, Expr_Assignment(f.v.expr, f.v.op, p.ret, span_from_previous(p)))

\* The eleven binary levels, from the loosest to the tightest: the function
\* of a level, the operators its loop matches, and the function it calls for
\* its operands.
BinaryLevels ==
    <<[fn |-> "logical_or", ops |-> {"PipePipe"}],
      [fn |-> "logical_and", ops |-> {"AmpAmp"}],
      [fn |-> "nullish_coalesce", ops |-> {"QuestionQuestion"}],
      [fn |-> "bitwise_or", ops |-> {"Pipe"}],
      [fn |-> "bitwise_xor", ops |-> {"Caret"}],
      [fn |-> "bitwise_and", ops |-> {"Amp"}],
      [fn |-> "equality", ops |-> {"BangEq", "EqEq"}],
      [fn |-> "comparison", ops |-> {"Lt", "LtEq", "Gt", "GtEq"}],
      [fn |-> "addition", ops |-> {"Plus", "Minus"}],
      [fn |-> "multiplication", ops |-> {"Star", "Slash", "Mod"}],
      [fn |-> "exponent", ops |-> {"Pow"}]>>

BinaryFunctions == {BinaryLevels[i].fn : i \in DOMAIN BinaryLevels}

level_of(fn) == CHOOSE i \in DOMAIN BinaryLevels : BinaryLevels[i].fn = fn

operand_of(level) == IF level = Len(BinaryLevels) THEN "unary" ELSE BinaryLevels[level + 1].fn

\* let mut expr = <operand>(); while match(<ops>) { op = previous();
\* right = <operand>(); expr = Binary { expr, op, right } }; expr
binary(p, f, level) ==
    LET while(q, expr) ==
            LET m == Parser_match_any(q, BinaryLevels[level].ops)
            IN  IF m.ok
                THEN Call(m.p, Resume(f, "right", [expr |-> expr, op |-> Parser_previous(m.p)]),
                          operand_of(level), <<>>)
                ELSE Return(q, expr)
    IN  CASE f.at = "start" -> Call(p, Resume(f, "expr", <<>>), operand_of(level), <<>>)
          [] f.at = "expr" -> while(p, p.ret)
          [] f.at = "right" ->
                while(p, Expr_Binary(f.v.expr, f.v.op, p.ret, span_from_previous(p)))

unary(p, f) ==
    CASE f.at = "start" ->
            LET m == Parser_match_any(p, {"Bang", "Minus"})
            IN  IF m.ok
                THEN Call(m.p, Resume(f, "right", [op |-> Parser_previous(m.p)]), "cast", <<>>)
                ELSE TailCall(p, "cast", <<>>)
      [] f.at = "right" -> Return(p, Expr_Unary(f.v.op, p.ret, span_from_previous(p)))

\* while match(As) { start = previous().span.start; ty = type_expression(); ... }
cast_loop(p, expr) ==
    LET next(start, ty) ==
            cast_loop(ty.p, Expr_Cast(expr, ty.v, span_to_peek(ty.p, start)))
        as(m) ==
            IF ~m.ok THEN R(p, expr)
            ELSE next(Parser_previous(m.p).span.start, type_expression(m.p))
    IN  as(Parser_match_token(p, "As"))

cast(p, f) ==
    CASE f.at = "start" -> Call(p, Resume(f, "expr", <<>>), "index", <<>>)
      [] f.at = "expr" -> Finish(cast_loop(p, p.ret))

index(p, f) ==
    LET while(q, expr) ==
            LET m == Parser_match_token(q, "Lbracket")
            IN  IF m.ok THEN Call(m.p, Resume(f, "index", [expr |-> expr]), "expression", <<>>)
                ELSE Return(q, expr)
    IN  CASE f.at = "start" -> Call(p, Resume(f, "expr", <<>>), "property_access", <<>>)
          [] f.at = "expr" -> while(p, p.ret)
          [] f.at = "index" ->
                LET q == consume(p, "Rbracket", "Expected ']' after index")
                IN  while(q, Expr_Index(f.v.expr, p.ret, span_from_previous(q)))

\* while match(Dot) { name = consume(Identifier); expr = Field { expr, name } }
property_access_loop(p, expr) ==
    LET m == Parser_match_token(p, "Dot")
    IN  IF ~m.ok THEN R(p, expr)
        ELSE LET q == consume(m.p, "Identifier", "Expected property name")
             IN  property_access_loop(q,
                     Expr_Field(expr, Parser_previous(q),
                                Span_new(Parser_previous(q).span.start,
                                         Parser_previous(q).span.start)))

property_access(p, f) ==
    CASE f.at = "start" -> Call(p, Resume(f, "expr", <<>>), "call", <<>>)
      [] f.at = "expr" -> Finish(property_access_loop(p, p.ret))

\* The Field node of `.name`, after the name was consumed in state q.
field_access(q, expr) ==
    Expr_Field(expr, Parser_previous(q),
               Span_new(Parser_previous(q).span.start, Parser_previous(q).span.start))

\* One pass of the loop of call after its `<` ... `>`: g.v is the vector
\* generics, declared before the loop, which every pass appends to.
call(p, f) ==
    LET pass(g, expr, m) ==
            IF g.p.status /= "ok" \/ ~m.ok THEN Return(g.p, expr)
            ELSE IF Parser_previous(m.p).kind = "Lparen"
            THEN Call(m.p, Resume(f, "called", [generics |-> g.v]), "finish_call",
                      [callee |-> expr, generics |-> g.v])
            ELSE IF Parser_previous(m.p).kind = "Dot"
            THEN Goto(consume(m.p, "Identifier", "Expected property name"),
                      Resume(f, "field", [expr |-> expr, generics |-> g.v]))
            ELSE Call(m.p, Resume(f, "index", [expr |-> expr, generics |-> g.v]),
                      "expression", <<>>)
        after_generics(g, expr) ==
            pass(g, expr, Parser_match_any(g.p, {"Lparen", "Dot", "Lbracket"}))
        loop(q, expr, generics) == after_generics(generic_parameters(q, generics, FALSE), expr)
    IN  CASE f.at = "start" -> Call(p, Resume(f, "expr", <<>>), "primary", <<>>)
          [] f.at = "expr" -> loop(p, p.ret, <<>>)
          [] f.at = "called" -> loop(p, p.ret, f.v.generics)
          [] f.at = "field" -> loop(p, field_access(p, f.v.expr), f.v.generics)
          [] f.at = "index" ->
                loop(consume(p, "Rbracket", "Expected ']' after index"),
                     Expr_Index(f.v.expr, p.ret,
                                span_from_previous(
                                    consume(p, "Rbracket", "Expected ']' after index"))),
                     f.v.generics)

finish_call(p, f) ==
    LET end(q, args) ==
            LET q1 == consume(q, "Rparen", "Expected ')' after arguments")
            IN  Return(q1, Expr_Call(f.v.callee, args, f.v.generics,
                                     Span_new(Parser_previous(q).span.start,
                                              Parser_previous(q1).span.start)))
        loop(q, args) ==
            IF Parser_is_at_end(q) THEN diverge(q)
            ELSE Call(IF Len(args) >= MaxParameters
                      THEN Parser_error(q, "Cannot have more than 255 arguments") ELSE q,
                      Resume(f, "arg", [callee |-> f.v.callee, generics |-> f.v.generics,
                                        args |-> args]),
                      "expression", <<>>)
    IN  CASE f.at = "start" ->
                IF ~Parser_check(p, "Rparen")
                THEN loop(p, <<>>)
                ELSE end(p, <<>>)
          [] f.at = "arg" ->
                IF ~Parser_check(p, "Rparen")
                THEN loop(consume(p, "Comma", "Expected ',' after argument"),
                          Append(f.v.args, p.ret))
                ELSE end(p, Append(f.v.args, p.ret))

primary_literal(p, token) ==
    CASE token.kind = "True" -> R(p, Expr_Literal(Literal_Bool(TRUE, token.span)))
      [] token.kind = "False" -> R(p, Expr_Literal(Literal_Bool(FALSE, token.span)))
      [] token.kind = "Null" -> R(p, Expr_Literal(Literal_Null(token.span)))
      [] token.kind = "Integer" ->
            IF parse_i64(token.lexeme).ok
            THEN R(p, Expr_Literal(Literal_Integer(parse_i64(token.lexeme).val, token.span)))
            ELSE R(Parser_error(p, "Invalid integer literal"), Expr_Error)
      [] token.kind = "Float" ->
            R(p, Expr_Literal(Literal_Float(parse_f64(token.lexeme), token.span)))
      [] token.kind \in {"String", "Char"} ->
            R(p, Expr_Literal(Literal_Token(token, token.span)))

primary(p, f) ==
    LET list(q, elements, closer) ==
            IF Parser_check(q, closer)
            THEN LET q1 == consume(q, closer,
                                   IF closer = "Rbracket"
                                   THEN "Expected ']' after array literal"
                                   ELSE "Expected ')' after tuple literal")
                     span == Span_new(Parser_previous(q).span.start,
                                      Parser_previous(q1).span.start)
                 IN  Return(q1, IF closer = "Rbracket" THEN Expr_Array(elements, span)
                                ELSE Expr_Tuple(elements, span))
            ELSE IF Parser_is_at_end(q) THEN diverge(q)
            ELSE Call(q, Resume(f, "element", [elements |-> elements, closer |-> closer]),
                      "expression", <<>>)
        start ==
            LET m == Parser_match_any(p, {"True", "False", "Null", "Integer", "Float",
                                          "String", "Char", "Identifier", "Pipe",
                                          "Lbracket", "Lparen"})
                token == Parser_previous(m.p)
            IN  IF ~m.ok THEN Return(Parser_error(p, "Expected expression"), Expr_Error)
                ELSE IF token.kind = "Identifier"
                THEN LET brace == Parser_match_token(m.p, "Lbrace")
                     IN  IF brace.ok THEN TailCall(brace.p, "struct_init", [name |-> token])
                         ELSE Return(m.p, Expr_Identifier(token, token.span))
                ELSE IF token.kind = "Pipe" THEN TailCall(m.p, "closure", <<>>)
                ELSE IF token.kind = "Lbracket" THEN list(m.p, <<>>, "Rbracket")
                ELSE IF token.kind = "Lparen"
                THEN Call(m.p, Resume(f, "paren", <<>>), "expression", <<>>)
                ELSE Finish(primary_literal(m.p, token))
    IN  CASE f.at = "start" -> start
          [] f.at = "element" ->
                list(separator(p, f.v.closer,
                               IF f.v.closer = "Rbracket"
                               THEN "Expected ',' after array element"
                               ELSE "Expected ',' after tuple element"),
                     Append(f.v.elements, p.ret), f.v.closer)
          [] f.at = "paren" ->
                LET comma == Parser_match_token(p, "Comma")
                    q == consume(p, "Rparen", "Expected ')' after expression")
                IN  IF comma.ok THEN list(comma.p, <<p.ret>>, "Rparen")
                    ELSE Return(q, Expr_Grouping(p.ret,
                                       Span_new(Parser_previous(p).span.start,
                                                Parser_previous(q).span.start)))

\* A shorthand entry whose value is left for a later pass to resolve.
shorthand_field_unresolved(field_name) == <<field_name, Expr_Error>>

\* The entry of the shorthand `name`: the field name is the value identifier.
shorthand_field(field_name) ==
    <<field_name, Expr_Identifier(field_name, field_name.span)>>

struct_init(p, f) ==
    LET locals(start, fields, field_name) ==
            [name |-> f.v.name, start |-> start, fields |-> fields,
             field_name |-> field_name]
        while(q, start, fields) ==
            IF Parser_check(q, "Rbrace")
            THEN LET q1 == consume(q, "Rbrace", "Expected '}' after struct literal")
                 IN  Return(q1, Expr_StructInit(f.v.name, fields,
                                    Span_new(start, Parser_previous(q1).span.start)))
            ELSE IF Parser_is_at_end(q) THEN diverge(q)
            ELSE LET q1 == consume(q, "Identifier", "Expected field name")
                     field_name == Parser_previous(q1)
                     colon == Parser_match_token(q1, "Colon")
                 IN  IF colon.ok
                     THEN Call(colon.p, Resume(f, "value", locals(start, fields, field_name)),
                               "expression", <<>>)
                     ELSE Goto(separator(q1, "Rbrace", "Expected ',' after field"),
                               Resume(f, "while",
                                      locals(start,
                                             Append(fields, shorthand_field(field_name)),
                                             field_name)))
    IN  CASE f.at = "start" -> while(p, Parser_peek(p).span.start, <<>>)
          [] f.at = "while" -> while(p, f.v.start, f.v.fields)
          [] f.at = "value" ->
                while(separator(p, "Rbrace", "Expected ',' after field"), f.v.start,
                      Append(f.v.fields, <<f.v.field_name, p.ret>>))

\* while !check(Pipe) { params = parse_parameters(Pipe) }
closure_parameters_loop(p, params) ==
    LET next(l) == closure_parameters_loop(l.p, l.v)
    IN  IF p.status /= "ok" \/ Parser_check(p, "Pipe") THEN R(p, params)
        ELSE IF stuck_at_end(p) THEN R(diverge(p), params)
        ELSE next(parse_parameters(p, "Pipe"))

closure(p, f) ==
    LET body(params, ty) ==
            Call(ty.p, Resume(f, "body", [start |-> Parser_previous(p).span.start,
                                          params |-> params.v, ty |-> ty.v]),
                 "parse_statement", <<>>)
        type(params) ==
            body(params, type_expression(consume(params.p, "Pipe",
                                             "Expected '|' after closure parameters")))
    IN  CASE f.at = "start" -> type(closure_parameters_loop(p, <<>>))
          [] f.at = "body" ->
                Return(p, Expr_Closure(f.v.params, p.ret, f.v.ty,
                                       span_to_peek(p, f.v.start)))

(***************************************************************************)
(* Parser::parse as a process: a step runs the function of the top frame.  *)
(* parser.pc is "run" while a frame is left, "done" once parse has         *)
(* returned, and the status of the parser once it has panicked or is in a  *)
(* loop it cannot leave.                                                   *)
(***************************************************************************)
DeclarationFunctions == {"declaration", "parse_function", "parse_trait", "parse_extend"}

StatementFunctions ==
    {"parse_statement", "parse_block", "parse_let_statement", "parse_if_statement",
     "parse_while_statement", "parse_for_statement", "parse_match_statement",
     "parse_case", "parse_return_statement", "parse_expression_statement"}

OperatorFunctions == {"expression", "assignment", "unary"} \cup BinaryFunctions

PostfixFunctions == {"cast", "index", "property_access", "call", "finish_call"}

PrimaryFunctions == {"primary", "struct_init", "closure"}

Running(functions) == parser.pc = "run" /\ Top(parser).fn \in functions

\* The parser after a step that left it in state p.
after(p) ==
    [p EXCEPT !.pc = IF p.status /= "ok" THEN p.status
                     ELSE IF p.stack = <<>> THEN "done" ELSE "run"]

StepParse ==
    /\ Running({"parse"})
    /\ parser' = after(parse(parser, Top(parser)))
    /\ UNCHANGED <<lexer, sema>>

StepDeclaration ==
    /\ Running(DeclarationFunctions)
    /\ LET f == Top(parser)
       IN  parser' = after(CASE f.fn = "declaration" -> declaration(parser, f)
                             [] f.fn = "parse_function" -> parse_function(parser, f)
                             [] f.fn = "parse_trait" -> parse_trait(parser, f)
                             [] f.fn = "parse_extend" -> parse_extend(parser, f))
    /\ UNCHANGED <<lexer, sema>>

StepStatement ==
    /\ Running(StatementFunctions)
    /\ LET f == Top(parser)
       IN  parser' = after(
               CASE f.fn = "parse_statement" -> parse_statement(parser, f)
                 [] f.fn = "parse_block" -> parse_block(parser, f)
                 [] f.fn = "parse_let_statement" -> parse_let_statement(parser, f)
                 [] f.fn = "parse_if_statement" -> parse_if_statement(parser, f)
                 [] f.fn = "parse_while_statement" -> parse_while_statement(parser, f)
                 [] f.fn = "parse_for_statement" -> parse_for_statement(parser, f)
                 [] f.fn = "parse_match_statement" -> parse_match_statement(parser, f)
                 [] f.fn = "parse_case" -> parse_case(parser, f)
                 [] f.fn = "parse_return_statement" -> parse_return_statement(parser, f)
                 [] f.fn = "parse_expression_statement" ->
                        parse_expression_statement(parser, f))
    /\ UNCHANGED <<lexer, sema>>

StepOperator ==
    /\ Running(OperatorFunctions)
    /\ LET f == Top(parser)
       IN  parser' = after(CASE f.fn = "expression" -> expression(parser, f)
                             [] f.fn = "assignment" -> assignment(parser, f)
                             [] f.fn = "unary" -> unary(parser, f)
                             [] OTHER -> binary(parser, f, level_of(f.fn)))
    /\ UNCHANGED <<lexer, sema>>

StepPostfix ==
    /\ Running(PostfixFunctions)
    /\ LET f == Top(parser)
       IN  parser' = after(CASE f.fn = "cast" -> cast(parser, f)
                             [] f.fn = "index" -> index(parser, f)
                             [] f.fn = "property_access" -> property_access(parser, f)
                             [] f.fn = "call" -> call(parser, f)
                             [] f.fn = "finish_call" -> finish_call(parser, f))
    /\ UNCHANGED <<lexer, sema>>

StepPrimary ==
    /\ Running(PrimaryFunctions)
    /\ LET f == Top(parser)
       IN  parser' = after(CASE f.fn = "primary" -> primary(parser, f)
                             [] f.fn = "struct_init" -> struct_init(parser, f)
                             [] f.fn = "closure" -> closure(parser, f))
    /\ UNCHANGED <<lexer, sema>>

(***************************************************************************)
(* The token slices parse is run on.  A word is a token before it has a    *)
(* place: its kind, its lexeme and the number of characters of the lexeme. *)
(* Layout gives the words the lines and spans the lexer gives them when    *)
(* they stand in a file with one blank after each of them, and ends the    *)
(* slice with the lexer's Eof token, which repeats the lexeme and the span *)
(* of the last token.  The word Newline is a line break: it makes no       *)
(* token, the lexer counts a line and sets its columns to 0 (a span holds  *)
(* columns of a line, the first line starting at column 1 and every later  *)
(* one at column 0), and an Eof after it has the span [0, 0).              *)
(***************************************************************************)
Word(kind, lexeme, width) == [kind |-> kind, lexeme |-> lexeme, width |-> width]

Lexemes ==
    [Module |-> <<"module", 6>>, Func |-> <<"func", 4>>, Struct |-> <<"struct", 6>>,
     Enum |-> <<"enum", 4>>, Trait |-> <<"trait", 5>>, Extend |-> <<"extend", 6>>,
     Import |-> <<"import", 6>>, As |-> <<"as", 2>>, Let |-> <<"let", 3>>,
     If |-> <<"if", 2>>, Else |-> <<"else", 4>>, While |-> <<"while", 5>>,
     For |-> <<"for", 3>>, In |-> <<"in", 2>>, Match |-> <<"match", 5>>,
     Return |-> <<"return", 6>>, Break |-> <<"break", 5>>,
     Continue |-> <<"continue", 8>>, Pub |-> <<"pub", 3>>, Priv |-> <<"priv", 4>>,
     Protected |-> <<"protected", 9>>, True |-> <<"true", 4>>, False |-> <<"false", 5>>,
     Null |-> <<"null", 4>>,
     Lparen |-> <<"(", 1>>, Rparen |-> <<")", 1>>, Lbrace |-> <<"{", 1>>,
     Rbrace |-> <<"}", 1>>, Lbracket |-> <<"[", 1>>, Rbracket |-> <<"]", 1>>,
     Comma |-> <<",", 1>>, Dot |-> <<".", 1>>, Colon |-> <<":", 1>>,
     Semicolon |-> <<";", 1>>, Eq |-> <<"=", 1>>, Lt |-> <<"<", 1>>, Gt |-> <<">", 1>>,
     Plus |-> <<"+", 1>>, Minus |-> <<"-", 1>>, Star |-> <<"*", 1>>, Pipe |-> <<"|", 1>>,
     Bang |-> <<"!", 1>>, Arrow |-> <<"->", 2>>, PlusEq |-> <<"+=", 2>>,
     EqEq |-> <<"==", 2>>, Pow |-> <<"**", 2>>, AmpAmp |-> <<"&&", 2>>,
     Underscore |-> <<"_", 1>>,
     PipePipe |-> <<"||", 2>>, QuestionQuestion |-> <<"??", 2>>, Caret |-> <<"^", 1>>,
     Amp |-> <<"&", 1>>, BangEq |-> <<"!=", 2>>, LtEq |-> <<"<=", 2>>,
     GtEq |-> <<">=", 2>>, Slash |-> <<"/", 1>>, Mod |-> <<"%", 1>>,
     MinusEq |-> <<"-=", 2>>, StarEq |-> <<"*=", 2>>, SlashEq |-> <<"/=", 2>>,
     ModEq |-> <<"%=", 2>>, AmpEq |-> <<"&=", 2>>, PipeEq |-> <<"|=", 2>>,
     CaretEq |-> <<"^=", 2>>]

\* The word of a keyword or an operator.
Kw(kind) == Word(kind, Lexemes[kind][1], Lexemes[kind][2])

\* The word of an identifier of one letter.
Id(name) == Word("Identifier", name, 1)

Num(lexeme) == Word("Integer", lexeme, 1)

IdInt == Word("Identifier", "int", 3)

IdBool == Word("Identifier", "bool", 4)

StringP == Word("String", "\"p\"", 3)

Newline == Word("Newline", "\n", 0)

\* The number of characters up to the start of the word after words[hi],
\* counted from the start of words[lo].
RECURSIVE Extent(_, _, _)
Extent(words, lo, hi) ==
    IF lo > hi THEN 0
    ELSE IF lo = hi THEN words[lo].width + 1
    ELSE Extent(words, lo, (lo + hi) \div 2) + Extent(words, (lo + hi) \div 2 + 1, hi)

\* The line breaks before words[i].
Breaks(words, i) == {k \in 1..(i - 1) : words[k] = Newline}

\* col_start of the token of words[i]: the characters before it on its line.
Column(words, i) ==
    IF Breaks(words, i) = {} THEN 1 + Extent(words, 1, i - 1)
    ELSE Extent(words,
                1 + (CHOOSE k \in Breaks(words, i) : \A j \in Breaks(words, i) : j <= k),
                i - 1)

Layout(words) ==
    LET placed == [i \in 1..Len(words) |->
                      Token_new(words[i].kind, words[i].lexeme,
                                1 + Cardinality(Breaks(words, i)),
                                Span_new(Column(words, i),
                                         Column(words, i) + words[i].width))]
        tokens == SelectSeq(placed, LAMBDA token : token.kind /= "Newline")
    IN  IF words = <<>> THEN <<Token_new("Eof", "", 1, Span_new(1, 1))>>
        ELSE IF Last(words) = Newline
        THEN Append(tokens, Token_new("Eof", "\n", Last(placed).line + 1, Span_new(0, 0)))
        ELSE Append(tokens, Token_new("Eof", Last(tokens).lexeme, Last(tokens).line,
                                      Last(tokens).span))

Header == <<Kw("Module"), Id("m"), Kw("Semicolon")>>

\* func f ( ) { }
FuncWords == <<Kw("Func"), Id("f"), Kw("Lparen"), Kw("Rparen"), Kw("Lbrace"), Kw("Rbrace")>>

\* struct A { x : int }
StructWords ==
    <<Kw("Struct"), Id("A"), Kw("Lbrace"), Id("x"), Kw("Colon"), IdInt, Kw("Rbrace")>>

\* enum E { V }
EnumWords == <<Kw("Enum"), Id("E"), Kw("Lbrace"), Id("V"), Kw("Rbrace")>>

\* trait T { }
TraitWords == <<Kw("Trait"), Id("T"), Kw("Lbrace"), Kw("Rbrace")>>

\* extend A { }
ExtendWords == <<Kw("Extend"), Id("A"), Kw("Lbrace"), Kw("Rbrace")>>

\* import "p" as q ;
ImportWords == <<Kw("Import"), StringP, Kw("As"), Id("q"), Kw("Semicolon")>>

\* let x = 1 ;
LetWords == <<Kw("Let"), Id("x"), Kw("Eq"), Num("1"), Kw("Semicolon")>>

\* x ;
ExprWords == <<Id("x"), Kw("Semicolon")>>

\* The well-formed declarations that follow the first one.
Followers == {FuncWords, StructWords, EnumWords, ImportWords, LetWords, ExprWords}

\* Statements that are not well formed.
Malformed ==
    { \* let x = ;
      <<Kw("Let"), Id("x"), Kw("Eq"), Kw("Semicolon")>>,
      \* let 1 2 ;
      <<Kw("Let"), Num("1"), Num("2"), Kw("Semicolon")>>,
      \* x x ;
      <<Id("x"), Id("x"), Kw("Semicolon")>>,
      \* let x = 1      (no `;`)
      <<Kw("Let"), Id("x"), Kw("Eq"), Num("1")>>,
      \* {              (a block that is never closed)
      <<Kw("Lbrace")>>,
      \* f ( 1          (a call that is never closed)
      <<Id("f"), Kw("Lparen"), Num("1")>>,
      \* func f ( a     (a parameter list that is never closed)
      <<Kw("Func"), Id("f"), Kw("Lparen"), Id("a")>>,
      \* struct A < 1 > { }     (a generic parameter that is no type variable)
      <<Kw("Struct"), Id("A"), Kw("Lt"), Num("1"), Kw("Gt"), Kw("Lbrace"), Kw("Rbrace")>> }

\* Declarations with lists of generic parameters or arguments.
GenericWords ==
    { \* struct A < T > { x : T }
      <<Kw("Struct"), Id("A"), Kw("Lt"), Id("T"), Kw("Gt"), Kw("Lbrace"), Id("x"),
        Kw("Colon"), Id("T"), Kw("Rbrace")>>,
      \* trait T < U , V > { }
      <<Kw("Trait"), Id("T"), Kw("Lt"), Id("U"), Kw("Comma"), Id("V"), Kw("Gt"),
        Kw("Lbrace"), Kw("Rbrace")>>,
      \* extend A < T > for B < U > { }
      <<Kw("Extend"), Id("A"), Kw("Lt"), Id("T"), Kw("Gt"), Kw("For"), Id("B"), Kw("Lt"),
        Id("U"), Kw("Gt"), Kw("Lbrace"), Kw("Rbrace")>>,
      \* let t : A < B < C > , D > = 1 ;
      <<Kw("Let"), Id("t"), Kw("Colon"), Id("A"), Kw("Lt"), Id("B"), Kw("Lt"), Id("C"),
        Kw("Gt"), Kw("Comma"), Id("D"), Kw("Gt"), Kw("Eq"), Num("1"), Kw("Semicolon")>>,
      \* let t : A < 1 ;
      <<Kw("Let"), Id("t"), Kw("Colon"), Id("A"), Kw("Lt"), Num("1"), Kw("Semicolon")>> }

\* The first declaration of a file: a declaration, with or without a
\* modifier, or a statement.
Firsts ==
    Followers \cup Malformed \cup GenericWords \cup
    { TraitWords, ExtendWords,
      \* extend A { pub func m ( a : bool ) -> int { return 1 ; } }
      <<Kw("Extend"), Id("A"), Kw("Lbrace"), Kw("Pub"), Kw("Func"), Id("m"), Kw("Lparen"),
        Id("a"), Kw("Colon"), IdBool, Kw("Rparen"), Kw("Arrow"), IdInt, Kw("Lbrace"),
        Kw("Return"), Num("1"), Kw("Semicolon"), Kw("Rbrace"), Kw("Rbrace")>>,
      <<Kw("Pub")>> \o ImportWords,
      <<Kw("Priv")>> \o ExtendWords,
      <<Kw("Protected")>> \o FuncWords,
      <<Kw("Pub")>> \o StructWords,
      <<Kw("Pub")>> \o ExprWords,
      \* x += f ( 1 , y ) . z [ 0 ] * - 2 == ! true && ( a ) ;
      <<Id("x"), Kw("PlusEq"), Id("f"), Kw("Lparen"), Num("1"), Kw("Comma"), Id("y"),
        Kw("Rparen"), Kw("Dot"), Id("z"), Kw("Lbracket"), Num("0"), Kw("Rbracket"),
        Kw("Star"), Kw("Minus"), Num("2"), Kw("EqEq"), Kw("Bang"), Kw("True"),
        Kw("AmpAmp"), Kw("Lparen"), Id("a"), Kw("Rparen"), Kw("Semicolon")>>,
      \* if ( x ) { break ; } else while ( true ) continue ;
      <<Kw("If"), Kw("Lparen"), Id("x"), Kw("Rparen"), Kw("Lbrace"), Kw("Break"),
        Kw("Semicolon"), Kw("Rbrace"), Kw("Else"), Kw("While"), Kw("Lparen"), Kw("True"),
        Kw("Rparen"), Kw("Continue"), Kw("Semicolon")>>,
      \* for ( i in [ 1 , 2 ] ) match ( i ) { 1 -> x ; , _ -> y ; }
      <<Kw("For"), Kw("Lparen"), Id("i"), Kw("In"), Kw("Lbracket"), Num("1"), Kw("Comma"),
        Num("2"), Kw("Rbracket"), Kw("Rparen"), Kw("Match"), Kw("Lparen"), Id("i"),
        Kw("Rparen"), Kw("Lbrace"), Num("1"), Kw("Arrow"), Id("x"), Kw("Semicolon"),
        Kw("Comma"), Kw("Underscore"), Kw("Arrow"), Id("y"), Kw("Semicolon"),
        Kw("Rbrace")>>,
      \* let t : ( int , [ A < B > ] ) -> bool = ( 1 , null ) as int ;
      <<Kw("Let"), Id("t"), Kw("Colon"), Kw("Lparen"), IdInt, Kw("Comma"), Kw("Lbracket"),
        Id("A"), Kw("Lt"), Id("B"), Kw("Gt"), Kw("Rbracket"), Kw("Rparen"), Kw("Arrow"),
        IdBool, Kw("Eq"), Kw("Lparen"), Num("1"), Kw("Comma"), Kw("Null"), Kw("Rparen"),
        Kw("As"), IdInt, Kw("Semicolon")>>,
      \* return | a : int | int { } ;
      <<Kw("Return"), Kw("Pipe"), Id("a"), Kw("Colon"), IdInt, Kw("Pipe"), IdInt,
        Kw("Lbrace"), Kw("Rbrace"), Kw("Semicolon")>>,
      \* S { x : 1 , y } ;
      <<Id("S"), Kw("Lbrace"), Id("x"), Kw("Colon"), Num("1"), Kw("Comma"), Id("y"),
        Kw("Rbrace"), Kw("Semicolon")>> }

\* The bound on the declarations of a file.
MaxChunks == 4

\* The declarations after the first one: up to MaxChunks - 1 of them after
\* a statement that is not well formed, at most one otherwise.
Rest(first) ==
    SeqsUpTo(Followers, IF first \in Malformed THEN MaxChunks - 1 ELSE 1)

\* The operators of the binary levels and the operands of the expressions.
BinaryOperators == UNION {BinaryLevels[i].ops : i \in DOMAIN BinaryLevels}

Operands == {Id("a"), Num("1")}

\* x op y ;    for a relational operator and operands of both kinds
RelationWords ==
    {<<x, Kw(op), y, Kw("Semicolon")>> :
        x \in Operands, y \in Operands, op \in {"Lt", "LtEq", "Gt", "GtEq"}}

\* a op1 2 op2 c ;    for two binary operators, or two assignment operators
ChainWords ==
    {<<Id("a"), Kw(op1), Num("2"), Kw(op2), Id("c"), Kw("Semicolon")>> :
        op1 \in BinaryOperators, op2 \in BinaryOperators}
    \cup {<<Id("a"), Kw(op1), Id("b"), Kw(op2), Id("c"), Kw("Semicolon")>> :
        op1 \in assignment_operators, op2 \in assignment_operators}

\* Struct literals, as a statement and as the value of a `let`.
StructLiteralWords ==
    { \* F { x : 1 } ;
      <<Id("F"), Kw("Lbrace"), Id("x"), Kw("Colon"), Num("1"), Kw("Rbrace"),
        Kw("Semicolon")>>,
      \* F { x } ;
      <<Id("F"), Kw("Lbrace"), Id("x"), Kw("Rbrace"), Kw("Semicolon")>>,
      \* F { } ;
      <<Id("F"), Kw("Lbrace"), Kw("Rbrace"), Kw("Semicolon")>>,
      \* F { x , y : a , z } ;
      <<Id("F"), Kw("Lbrace"), Id("x"), Kw("Comma"), Id("y"), Kw("Colon"), Id("a"),
        Kw("Comma"), Id("z"), Kw("Rbrace"), Kw("Semicolon")>>,
      \* let s = F { x } ;
      <<Kw("Let"), Id("s"), Kw("Eq"), Id("F"), Kw("Lbrace"), Id("x"), Kw("Rbrace"),
        Kw("Semicolon")>> }

\* x = 1 ;    and    x += 1 ;
AssignmentWords ==
    {<<Id("x"), Kw(op), Num("1"), Kw("Semicolon")>> : op \in {"Eq", "PlusEq"}}

\* f < T > ( x ) ( y ) ;    and    f ( x ) ( y ) ;
CallChainWords ==
    { <<Id("f"), Kw("Lt"), Id("T"), Kw("Gt"), Kw("Lparen"), Id("x"), Kw("Rparen"),
        Kw("Lparen"), Id("y"), Kw("Rparen"), Kw("Semicolon")>>,
      <<Id("f"), Kw("Lparen"), Id("x"), Kw("Rparen"), Kw("Lparen"), Id("y"), Kw("Rparen"),
        Kw("Semicolon")>> }

ExpressionWords ==
    RelationWords \cup ChainWords \cup StructLiteralWords \cup AssignmentWords
        \cup CallChainWords

\* Declarations written on more than one line, or ended by a line break.
MultiLineWords ==
    { \* func f ( ) {
      \* }
      <<Kw("Func"), Id("f"), Kw("Lparen"), Kw("Rparen"), Kw("Lbrace"), Newline,
        Kw("Rbrace")>>,
      \* func f ( ) { }
      \* (end of file)
      FuncWords \o <<Newline>>,
      \* let x =
      \* 1 ;
      <<Kw("Let"), Id("x"), Kw("Eq"), Newline, Num("1"), Kw("Semicolon")>>,
      \* if ( x )
      \* { }
      \* x ;
      <<Kw("If"), Kw("Lparen"), Id("x"), Kw("Rparen"), Newline, Kw("Lbrace"),
        Kw("Rbrace"), Newline, Id("x"), Kw("Semicolon")>> }

\* The files, each the sequence of its declarations: a header and up to
\* MaxChunks declarations, or no header and at most one declaration (with
\* none, the token slice is the Eof token alone); a header and one
\* expression statement; a header and a declaration of several lines.
ParserSources ==
    {<<Header>>, <<>>}
    \cup UNION {{<<Header, first>> \o rest : rest \in Rest(first)} : first \in Firsts}
    \cup {<<first>> : first \in Firsts}
    \cup {<<Header, words>> : words \in ExpressionWords \cup MultiLineWords}

InitParse ==
    /\ parser \in {Parser_new(Layout(Flatten(source)), source) : source \in ParserSources}
    /\ lexer = IdleLexer
    /\ sema = IdleSema

NextParse ==
    \/ StepParse
    \/ StepDeclaration
    \/ StepStatement
    \/ StepOperator
    \/ StepPostfix
    \/ StepPrimary

SpecParse == InitParse /\ [][NextParse]_vars

(***************************************************************************)
(* CLAIMS ABOUT THE LEXER (checked under SpecLex)                          *)
(***************************************************************************)
KindCount(tokens, kind) == Cardinality({i \in 1..Len(tokens) : tokens[i].kind = kind})

\* The lexer state with which the while loop of scan_tokens calls scan_token.
AtTokenStart(L) == [L EXCEPT !.start = L.current, !.col_start = L.col_end]

\* C8: for every source text scan_tokens terminates (it never panics, and
\* every scan_token step consumes at least one character), and the token list
\* it produces holds exactly one Eof token, in last position.
C8_ScanTokensCompletes ==
    /\ lexer.pc /= "panic"
    /\ (lexer.pc = "scan" /\ ~Lexer_is_at_end(lexer)
            => scan_token(AtTokenStart(lexer)).current > lexer.current)
    /\ (lexer.pc = "scan" => KindCount(lexer.tokens, "Eof") = 0)
    /\ (lexer.pc \in {"report", "done"}
            => /\ lexer.tokens /= <<>>
               /\ Last(lexer.tokens).kind = "Eof"
               /\ KindCount(lexer.tokens, "Eof") = 1)

\* The two-character operators: first character, second character, kind.
TwoCharOperators ==
    { <<"=", "=", "EqEq">>, <<"!", "=", "BangEq">>, <<"<", "=", "LtEq">>,
      <<">", "=", "GtEq">>, <<"&", "&", "AmpAmp">>, <<"|", "|", "PipePipe">>,
      <<"*", "*", "Pow">>, <<".", ".", "Range">>, <<"-", ">", "Arrow">>,
      <<"?", "?", "QuestionQuestion">>, <<"+", "=", "PlusEq">>,
      <<"-", "=", "MinusEq">>, <<"*", "=", "StarEq">>, <<"/", "=", "SlashEq">>,
      <<"%", "=", "ModEq">>, <<"&", "=", "AmpEq">>, <<"|", "=", "PipeEq">>,
      <<"^", "=", "CaretEq">> }

\* The single-character kind of each character that starts such an operator.
SingleCharOperators ==
    { <<"=", "Eq">>, <<"!", "Bang">>, <<"<", "Lt">>, <<">", "Gt">>,
      <<"&", "Amp">>, <<"|", "Pipe">>, <<"*", "Star">>, <<".", "Dot">>,
      <<"-", "Minus">>, <<"?", "Question">>, <<"+", "Plus">>,
      <<"/", "Slash">>, <<"%", "Mod">>, <<"^", "Caret">> }

\* The character at 0-based offset i of the lexer's source, NUL past the end.
CharAt(L, i) == IF i < Len(L.source) THEN L.source[i + 1] ELSE NUL

\* C9: maximal munch.  A scan_token step that starts at the first character
\* of a two-character operator written adjacent adds exactly one token, of
\* the compound kind, holding both characters; and a step adds the
\* single-character kind only when the next character forms no extension.
C9_MaximalMunch ==
    [][ScanToken =>
        LET c1 == CharAt(lexer, lexer.current)
            c2 == CharAt(lexer, lexer.current + 1)
            added == Len(lexer'.tokens) - Len(lexer.tokens)
        IN  /\ \A op \in TwoCharOperators :
                 c1 = op[1] /\ c2 = op[2]
                 => /\ lexer'.tokens =
                         Append(lexer.tokens,
                                Token_new(op[3], <<c1, c2>>, lexer.line,
                                          Span_new(lexer.col_end, lexer.col_end + 2)))
                    /\ lexer'.current = lexer.current + 2
            /\ \A s \in SingleCharOperators :
                 c1 = s[1] /\ added = 1 /\ Last(lexer'.tokens).kind = s[2]
                 => /\ ~\E op \in TwoCharOperators : c1 = op[1] /\ c2 = op[2]
                    /\ Last(lexer'.tokens).lexeme = <<c1>>
                    /\ lexer'.current = lexer.current + 1
    ]_vars

\* C9 witness: "===" was lexed to EqEq followed by Eq.
C9_Witness ==
    /\ lexer.pc = "done"
    /\ lexer.source = <<"=", "=", "=">>
    /\ [i \in 1..Len(lexer.tokens) |-> lexer.tokens[i].kind] = <<"EqEq", "Eq", "Eof">>

Quotes == {"\"", "'"}

\* The last token scan_token started on opens a literal that is never closed.
EndsInsideLiteral(L) ==
    /\ L.start < Len(L.source)
    /\ L.source[L.start + 1] \in Quotes
    /\ \A i \in (L.start + 2)..Len(L.source) : L.source[i] /= L.source[L.start + 1]

ErrorTokens(tokens) == SelectSeq(tokens, LAMBDA t : t.kind = "Error")

LiveActivations(fn) == SelectSeq(sema.stack, LAMBDA frame : frame.fn = fn)

\* C2: FullSymbolTablePass.visit_module and TypeChecker.visit_module run to
\* completion and visit every node a bounded number of times: no pass
\* exhausts the call stack, and an overridden visit_function or
\* visit_statement is never entered again for the node it is already
\* visiting.
C2_PassesRunToCompletion ==
    /\ sema.pc /= "overflow"
    /\ Len(LiveActivations("visit_function")) <= 1
    /\ Len(LiveActivations("visit_statement")) <= 1

ThreeTypeErrors == <<IllTypedLet(1), IllTypedLet(2), IllTypedLet(3)>>

\* C4: type-checking a module of three `let` bindings whose initializer does
\* not fit the declared type is not aborted, records no error twice, and
\* leaves exactly three entries in errors, one per binding, in source order.
C4_ThreeErrorsThreeEntries ==
    (sema.pc \in {"typecheck", "done", "overflow"} /\ sema.module = ThreeTypeErrors) =>
        /\ sema.pc /= "overflow"
        /\ \A a, b \in 1..Len(sema.errors) : sema.errors[a] = sema.errors[b] => a = b
        /\ sema.pc = "done" =>
              sema.errors = [k \in 1..3 |->
                  type_error(<<"Type mismatch in let binding">>,
                             ThreeTypeErrors[k].item.span)]

\* C5: while a pass visits a function, its parameters resolve in the value
\* table to the Parameter symbols; the visit is not aborted, so that
\* visit_function returns; and whenever no visit_function is running the
\* value table has its one module-level scope again, in which a name
\* resolves to the module-level symbol or to nothing.
C5_ParameterScope ==
    /\ \A k \in 1..Len(LiveActivations("visit_function")) :
          \A n \in 1..Len(LiveActivations("visit_function")[k].function.params) :
             LET param == LiveActivations("visit_function")[k].function.params[n]
             IN  SymbolTable_get(sema.table.values, param.name.lexeme)
                    = parameter_symbol(param)
    /\ ~(sema.pc = "overflow" /\ LiveActivations("visit_function") /= <<>>)
    /\ LiveActivations("visit_function") = <<>> =>
          /\ Len(sema.table.values.scopes) = 1
          /\ \A name \in {"a", "f", "v"} :
                SymbolTable_get(sema.table.values, name) \in
                    {None, Scope_get(sema.table.values.scopes[1], name)}

\* An argument whose inferred type is the parameter's type.
matching_argument(param) ==
    IF param.ty.name.lexeme = "int"
    THEN Expr_Literal(Literal_Integer(1, param.span))
    ELSE Expr_Literal(Literal_Bool(TRUE, param.span))

\* The call f(args) of a declared function with an argument per parameter.
matching_call(function) ==
    Expr_Call(Expr_Identifier(function.name, function.name.span),
              [n \in 1..Len(function.params) |-> matching_argument(function.params[n])],
              <<>>, function.span)

\* C6: once the population pass has registered a top-level function, a call
\* of that function by name with an argument of each parameter's type is
\* inferred as the function's declared return type and adds no diagnostic.
C6_CallInfersReturnType ==
    (/\ sema.pc = "populate"
     /\ InDeclaration
     /\ CurrentDecl.kind = "Function"
     /\ sema.stack /= <<>>) =>
        LET inferred == infer_type(sema.table.values, <<>>, matching_call(CurrentDecl.item))
        IN  /\ inferred.ty = CurrentDecl.item.return_type
            /\ inferred.errors = <<>>

(***************************************************************************)
(* CLAIMS ABOUT THE PARSER (checked under SpecParse)                       *)
(***************************************************************************)
\* C1: on every token slice that ends with Eof, the slice of Eof alone and a
\* slice with a `{` that is never closed included, parse neither reads a
\* token at an index outside the slice nor enters a loop that it cannot
\* leave because no pass of it consumes a token.
C1_ParseTerminates == parser.pc \notin {"panic", "diverge"}

\* The StatementKind that declaration returns for a well-formed declaration.
kind_of(words) ==
    CASE words[1].kind = "Func" -> "Function"
      [] words[1].kind = "Struct" -> "Struct"
      [] words[1].kind = "Enum" -> "Enum"
      [] words[1].kind = "Import" -> "Import"
      [] OTHER -> "Statement"

\* The file is a header, one statement that is not well formed, and three
\* well-formed declarations.
OneMalformedThenThree ==
    /\ Len(parser.source) = 5
    /\ parser.source[1] = Header
    /\ parser.source[2] \in Malformed
    /\ \A i \in 3..5 : parser.source[i] \in Followers

\* C3: when parse returns for a module of one malformed statement followed
\* by three well-formed declarations, module.stmts holds the three
\* declarations, in order and nothing else, and errors is exactly 1.
C3_ErrorRecovery ==
    (parser.pc = "done" /\ OneMalformedThenThree) =>
        /\ Len(parser.module.stmts) = 3
        /\ \A i \in 1..3 :
              i <= Len(parser.module.stmts) =>
                 parser.module.stmts[i].kind = kind_of(parser.source[i + 2])
        /\ parser.errors = 1

Modifiers == {"Pub", "Priv", "Protected"}

ModifierMessage == "Access modifier must be used with a declaration"

\* How often error has printed message.
Printed(p, message) ==
    Cardinality({k \in 1..Len(p.diagnostics) : p.diagnostics[k] = message})

\* The modifier written before the keyword of a function, struct, enum or
\* trait: the node's span starts at its name, the token after the keyword.
written_modifier(item) ==
    LET k == CHOOSE k \in 1..Len(parser.tokens) :
                 /\ parser.tokens[k].span.start = item.span.start
                 /\ \A j \in 1..(k - 1) :
                       parser.tokens[j].span.start /= item.span.start
    IN  IF k > 2 /\ parser.tokens[k - 2].kind \in Modifiers
        THEN modifier_of[parser.tokens[k - 2].kind] ELSE "None"

\* declaration is about to start a top-level declaration.
DeclarationStarts ==
    /\ parser.pc = "run"
    /\ Top(parser).fn = "declaration"
    /\ Top(parser).at = "start"

\* C7: current_modifier is None whenever declaration starts a top-level
\* declaration; a function, struct, enum or trait written without a
\* modifier has access None; and the step of declaration that prints
\* "Access modifier must be used with a declaration" starts at a modifier.
C7_ModifierAppliesToOne ==
    /\ [](DeclarationStarts => parser.current_modifier = "None")
    /\ [](\A i \in 1..Len(parser.module.stmts) :
             LET decl == parser.module.stmts[i]
             IN  (/\ decl.kind \in {"Function", "Struct", "Enum", "Trait"}
                  /\ written_modifier(decl.item) = "None") =>
                     decl.item.access = "None")
    /\ [][(/\ DeclarationStarts
           /\ Printed(parser', ModifierMessage) > Printed(parser, ModifierMessage)) =>
              Parser_peek(parser).kind \in Modifiers]_vars

\* The shape of an expression: its operators and operands, without spans.
RECURSIVE shape(_)
shape(expr) ==
    CASE expr.node \in {"Binary", "Assignment"} ->
            <<expr.node, expr.op.kind, shape(expr.left), shape(expr.right)>>
      [] expr.node = "Identifier" -> <<"Identifier", expr.token.lexeme>>
      [] expr.node = "Literal" /\ expr.lit.lit = "Integer" ->
            <<"Integer", ToString(expr.lit.value)>>
      [] OTHER -> <<expr.node>>

\* The shape of the operand written as one word.
operand_shape(word) == <<word.kind, word.lexeme>>

\* parse has ended: it has returned, panicked, or is in a loop it cannot leave.
Ended == parser.pc \in {"done", "panic", "diverge"}

\* The file is a header and the one statement of the set words.
OneStatementOf(words) ==
    /\ Len(parser.source) = 2
    /\ parser.source[1] = Header
    /\ parser.source[2] \in words

\* parse has returned a module whose one statement is an expression
\* statement of shape sh, without a diagnostic.
ParsesTo(sh) ==
    /\ parser.pc = "done"
    /\ parser.errors = 0
    /\ Len(parser.module.stmts) = 1
    /\ parser.module.stmts[1].kind = "Statement"
    /\ parser.module.stmts[1].item.node = "Expr"
    /\ shape(parser.module.stmts[1].item.expr) = sh

\* The ladder of binary operators, from the loosest level to the tightest.
Ladder ==
    <<{"PipePipe"}, {"AmpAmp"}, {"QuestionQuestion"}, {"Pipe"}, {"Caret"}, {"Amp"},
      {"EqEq", "BangEq"}, {"Lt", "LtEq", "Gt", "GtEq"}, {"Plus", "Minus"},
      {"Star", "Slash", "Mod"}, {"Pow"}>>

LadderOperators == UNION {Ladder[i] : i \in DOMAIN Ladder}

rung(op) == CHOOSE i \in DOMAIN Ladder : op \in Ladder[i]

\* x op1 y op2 z with op1 applied first, and with op2 applied first.
LeftNested(tag, w) ==
    <<tag, w[4].kind, <<tag, w[2].kind, operand_shape(w[1]), operand_shape(w[3])>>,
      operand_shape(w[5])>>

RightNested(tag, w) ==
    <<tag, w[2].kind, operand_shape(w[1]),
      <<tag, w[4].kind, operand_shape(w[3]), operand_shape(w[5])>>>>

\* C11: an expression statement `x op1 y op2 z ;` whose two binary operators
\* stand on different levels of the ladder parses, without a diagnostic, to
\* the tree in which the operator of the tighter level is a child of the
\* operator of the looser level.
C11_Precedence ==
    (/\ Ended
     /\ OneStatementOf(ChainWords)
     /\ parser.source[2][2].kind \in LadderOperators
     /\ rung(parser.source[2][2].kind) /= rung(parser.source[2][4].kind)) =>
        ParsesTo(IF rung(parser.source[2][2].kind) > rung(parser.source[2][4].kind)
                 THEN LeftNested("Binary", parser.source[2])
                 ELSE RightNested("Binary", parser.source[2]))

\* C19: an expression statement `x op y ;` with a relational operator
\* between identifiers or literals parses to the one Binary node of that
\* operator and those operands, without a diagnostic.
C19_RelationalParses ==
    (Ended /\ OneStatementOf(RelationWords)) =>
        ParsesTo(<<"Binary", parser.source[2][2].kind, operand_shape(parser.source[2][1]),
                   operand_shape(parser.source[2][3])>>)

\* C20: an expression statement `x op1 y op2 z ;` whose binary operators
\* stand on one level of the ladder (the exponent level included) parses to
\* the left-nested tree, and one whose operators are assignment operators
\* parses to the right-nested tree.
C20_Associativity ==
    (Ended /\ OneStatementOf(ChainWords)) =>
        /\ (/\ parser.source[2][2].kind \in LadderOperators
            /\ rung(parser.source[2][2].kind) = rung(parser.source[2][4].kind)) =>
                ParsesTo(LeftNested("Binary", parser.source[2]))
        /\ parser.source[2][2].kind \in assignment_operators =>
                ParsesTo(RightNested("Assignment", parser.source[2]))

\* The entries written from words[i] up to the closing `}`, as pairs of a
\* field name and the shape of its value.
RECURSIVE literal_fields(_, _)
literal_fields(words, i) ==
    LET rest(j) == literal_fields(words, IF words[j].kind = "Comma" THEN j + 1 ELSE j)
    IN  IF words[i].kind = "Rbrace" THEN <<>>
        ELSE IF words[i + 1].kind = "Colon"
        THEN <<<<words[i].lexeme, operand_shape(words[i + 2])>>>> \o rest(i + 3)
        ELSE <<<<words[i].lexeme, <<"Identifier", words[i].lexeme>>>>>> \o rest(i + 1)

\* The place of the `{` of the literal in the statement.
brace_of(words) == CHOOSE i \in DOMAIN words : words[i].kind = "Lbrace"

field_shapes(fields) == [k \in DOMAIN fields |-> <<fields[k][1].lexeme, shape(fields[k][2])>>]

\* The expression of the statement parse returned: the value of a `let`, or
\* the expression of an expression statement.
parsed_literal ==
    IF parser.module.stmts[1].item.node = "Let" THEN parser.module.stmts[1].item.value
    ELSE parser.module.stmts[1].item.expr

\* primary starts at an identifier that is directly followed by `{`.
PrimaryAtLiteral ==
    /\ parser.pc = "run"
    /\ Top(parser).fn = "primary"
    /\ Top(parser).at = "start"
    /\ Parser_peek(parser).kind = "Identifier"
    /\ parser.current + 2 <= Len(parser.tokens)
    /\ parser.tokens[parser.current + 2].kind = "Lbrace"

\* struct_init returns to its caller.
StructInitReturns ==
    /\ parser.pc = "run"
    /\ Top(parser).fn = "struct_init"
    /\ parser'.status = "ok"
    /\ Len(parser'.stack) < Len(parser.stack)

\* C12: primary at an identifier directly followed by `{` consumes both and
\* continues as struct_init with that name, whatever comes next, and
\* struct_init returns a StructInit of that name; a statement that holds a
\* struct literal parses without a diagnostic to a StructInit whose fields
\* are, in source order, (name, expr) for `name : expr` and
\* (name, Identifier name) for the shorthand `name`.
C12_StructLiteral ==
    /\ [][PrimaryAtLiteral =>
             /\ parser'.pc = "run"
             /\ Top(parser').fn = "struct_init"
             /\ Top(parser').v.name = Parser_peek(parser)
             /\ parser'.current = parser.current + 2]_vars
    /\ [][StructInitReturns =>
             /\ parser'.ret.node = "StructInit"
             /\ parser'.ret.name = Top(parser).v.name]_vars
    /\ []((Ended /\ OneStatementOf(StructLiteralWords)) =>
             /\ parser.pc = "done"
             /\ parser.errors = 0
             /\ Len(parser.module.stmts) = 1
             /\ parsed_literal.node = "StructInit"
             /\ parsed_literal.name.lexeme
                   = parser.source[2][brace_of(parser.source[2]) - 1].lexeme
             /\ field_shapes(parsed_literal.fields)
                   = literal_fields(parser.source[2], brace_of(parser.source[2]) + 1))

\* parse has returned the StructInit of `F { x , y : a , z } ;`, which holds
\* two shorthand entries and one entry with a value.
C12_Witness ==
    /\ parser.pc = "done"
    /\ OneStatementOf(StructLiteralWords)
    /\ Len(parser.module.stmts) = 1
    /\ parsed_literal.node = "StructInit"
    /\ Len(parsed_literal.fields) = 3
    /\ parsed_literal.fields[1][2].node = "Identifier"
    /\ parsed_literal.fields[2][2].node = "Identifier"

\* The span of a node, or the empty span for a value that carries none.
span_of(x) == IF "span" \in DOMAIN x THEN x.span ELSE Span_default

ordered(span) == span.end >= span.start

\* C17: every span of a token handed to the parser, of a node a parsing
\* function returns and of a declaration or statement of the module parse
\* returns has end >= start, also when the node starts on one line and ends
\* on a later one.
C17_SpanOrdered ==
    parser.pc \in {"run", "done"} =>
        /\ \A i \in DOMAIN parser.tokens : ordered(parser.tokens[i].span)
        /\ parser.pc = "done" =>
              /\ ordered(parser.module.span)
              /\ \A k \in DOMAIN parser.module.stmts :
                    ordered(span_of(parser.module.stmts[k].item))

(***************************************************************************)
(* A SYMBOL TABLE UNDER ITS OWN OPERATIONS (symbol_table.rs)               *)
(*                                                                         *)
(* One SymbolTable, built by SymbolTable::new, on which enter_scope,       *)
(* exit_scope and insert are called in any order.  Beside the table, log   *)
(* records what was asked of it: one sequence per scope that is open, of   *)
(* the symbols inserted while that scope was the innermost, in order.      *)
(***************************************************************************)
\* The bounds: the scopes open at once, and the inserts into one scope.
MaxScopes == 3

MaxInserts == 2

TableNames == {"a", "b"}

TableSymbols ==
    {Symbol_new(name, kind, None, None, None, None) :
        name \in TableNames, kind \in {"Variable", "Function"}}

InitTable ==
    /\ sema = [pc |-> "table", table |-> SymbolTable_new, log |-> <<<<>>>>]
    /\ lexer = IdleLexer
    /\ parser = IdleParser

EnterScope ==
    /\ sema.pc = "table"
    /\ Len(sema.table.scopes) < MaxScopes
    /\ sema' = [sema EXCEPT !.table = enter_scope(@), !.log = Append(@, <<>>)]
    /\ UNCHANGED <<lexer, parser>>

ExitScope ==
    /\ sema.pc = "table"
    /\ sema' = [sema EXCEPT !.table = exit_scope(@),
                            !.log = IF @ = <<>> THEN @ ELSE SubSeq(@, 1, Len(@) - 1)]
    /\ UNCHANGED <<lexer, parser>>

Insert ==
    /\ sema.pc = "table"
    /\ \E symbol \in TableSymbols :
          /\ sema.log /= <<>> => Len(Last(sema.log)) < MaxInserts
          /\ sema' = [sema EXCEPT !.table = SymbolTable_insert(@, symbol),
                                  !.log = IF @ = <<>> THEN @
                                          ELSE [@ EXCEPT ![Len(@)] = Append(@, symbol)]]
    /\ UNCHANGED <<lexer, parser>>

NextTable ==
    \/ EnterScope
    \/ ExitScope
    \/ Insert

SpecTable == InitTable /\ [][NextTable]_vars

(***************************************************************************)
(* Claims about the symbol table                                           *)
(***************************************************************************)
RECURSIVE visible(_, _)
\* The symbol the log makes visible under a name: the last one inserted
\* under it into the innermost open scope that received such an insert.
visible(log, name) ==
    LET inserted == SelectSeq(Last(log), LAMBDA symbol : symbol.name = name)
    IN  IF log = <<>> THEN None
        ELSE IF inserted = <<>> THEN visible(SubSeq(log, 1, Len(log) - 1), name)
        ELSE Last(inserted)

\* The step is an insert that found a scope to write to.
InsertStep ==
    /\ Len(sema'.log) = Len(sema.log)
    /\ sema'.log /= sema.log

\* C13: after any sequence of enter_scope, exit_scope and insert, get(name)
\* is the symbol most recently inserted under the name in the innermost open
\* scope that holds it, and None when no open scope holds it; an insert
\* writes its symbol under its name in the innermost scope only, keeps the
\* other names of that scope and leaves every outer scope unchanged.
C13_ScopedLookup ==
    /\ [](sema.pc = "table" =>
             \A name \in TableNames :
                 SymbolTable_get(sema.table, name) = visible(sema.log, name))
    /\ [][InsertStep =>
             LET n == Len(sema.table.scopes)
                 symbol == Last(Last(sema'.log))
             IN  /\ Len(sema'.table.scopes) = n
                 /\ \A i \in 1..(n - 1) : sema'.table.scopes[i] = sema.table.scopes[i]
                 /\ Scope_get(sema'.table.scopes[n], symbol.name) = symbol
                 /\ \A name \in TableNames \ {symbol.name} :
                       Scope_get(sema'.table.scopes[n], name)
                           = Scope_get(sema.table.scopes[n], name)]_vars

\* Two scopes are open, both hold `a`, the inner one after a second insert
\* that replaced its first, and get answers with the inner scope's symbol.
C13_Witness ==
    /\ sema.pc = "table"
    /\ Len(sema.table.scopes) = 2
    /\ Len(sema.log[1]) >= 1
    /\ sema.log[1][1].name = "a"
    /\ sema.log[1][1].kind = "Variable"
    /\ Len(sema.log[2]) = 2
    /\ sema.log[2][1].name = "a"
    /\ sema.log[2][1].kind = "Variable"
    /\ sema.log[2][2].name = "a"
    /\ sema.log[2][2].kind = "Function"
    /\ SymbolTable_get(sema.table, "a").kind = "Function"

(***************************************************************************)
(* TYPE COMPATIBILITY AS A FUNCTION (type_checker.rs)                      *)
(*                                                                         *)
(* check_type_compatibility does not read the checker's state, so it is    *)
(* applied to a pair of types drawn from CompatTypes: the atoms, every     *)
(* type built of atoms in one step, and some built in two.  Types that     *)
(* differ in their spans only are in the set, and so is Type::Error.       *)
(***************************************************************************)
\* The bound on the length of a list of generics, elements or parameters.
MaxComponents == 2

\* Some(n) of an Option<usize>.
Some(n) == [node |-> "Some", value |-> n]

NamedToken(lexeme, start) ==
    Token_new("Identifier", lexeme, 1, Span_new(start, start + Len(lexeme)))

PrimitiveAt(lexeme, start) ==
    Type_Primitive(NamedToken(lexeme, start), Span_new(start, start + Len(lexeme)))

TypeVarAt(lexeme, start) ==
    Type_TypeVar(NamedToken(lexeme, start), Span_new(start, start + Len(lexeme)))

NamedAt(lexeme, generics, start) ==
    Type_Named(NamedToken(lexeme, start), generics, Span_new(start, start + Len(lexeme)))

\* The types that are components of the built types.
Components ==
    {PrimitiveAt("int", 1), PrimitiveAt("int", 7), PrimitiveAt("bool", 1),
     TypeVarAt("T", 1), Type_Error(Span_new(1, 2))}

Atoms ==
    Components \cup {PrimitiveAt("float", 1), TypeVarAt("U", 1), TypeVarAt("int", 1)}

Sizes == {None, Some(1), Some(2)}

\* Every type built in one step of the types of S.
Built(S) ==
    LET lists == SeqsUpTo(S, MaxComponents)
    IN  {NamedAt(name, generics, 1) : name \in {"Pair", "Other"}, generics \in lists}
        \cup {Type_Array(element, size, Span_new(1, 4)) : element \in S, size \in Sizes}
        \cup {Type_Tuple(elements, Span_new(1, 4)) : elements \in lists}
        \cup {Type_Function(params, return_type, Span_new(1, 4)) :
                 params \in SeqsUpTo(S, 1), return_type \in S}

\* The components of the types built in two steps.
Nested ==
    {NamedAt("Pair", <<PrimitiveAt("int", 1), PrimitiveAt("bool", 1)>>, 1),
     Type_Array(PrimitiveAt("int", 1), Some(1), Span_new(1, 4))}

CompatTypes == Atoms \cup Built(Components) \cup Built(Nested)

InitCompat ==
    /\ \E expected \in CompatTypes, actual \in CompatTypes :
          sema = [pc |-> "compat", expected |-> expected, actual |-> actual,
                  result |-> FALSE]
    /\ lexer = IdleLexer
    /\ parser = IdleParser

CheckTypeCompatibility ==
    /\ sema.pc = "compat"
    /\ sema' = [sema EXCEPT
                   !.pc = "checked",
                   !.result = check_type_compatibility(sema.expected, sema.actual)]
    /\ UNCHANGED <<lexer, parser>>

NextCompat == CheckTypeCompatibility

SpecCompat == InitCompat /\ [][NextCompat]_vars

(***************************************************************************)
(* Claims about type compatibility                                         *)
(***************************************************************************)
RECURSIVE erase(_)
\* A type without its spans and with its name tokens reduced to their text.
erase(t) ==
    LET each(ts) == [k \in DOMAIN ts |-> erase(ts[k])]
    IN  CASE t.node \in {"Primitive", "TypeVar"} -> <<t.node, t.name.lexeme>>
          [] t.node = "Named" -> <<t.node, t.name.lexeme, each(t.generics)>>
          [] t.node = "Array" -> <<t.node, erase(t.element), t.size>>
          [] t.node = "Tuple" -> <<t.node, each(t.elements)>>
          [] t.node = "Function" -> <<t.node, each(t.params), erase(t.return_type)>>
          [] OTHER -> <<t.node>>

RECURSIVE resolved(_)
\* The type holds no Type::Error.
resolved(t) ==
    LET all(ts) == \A k \in DOMAIN ts : resolved(ts[k])
    IN  CASE t.node \in {"Primitive", "TypeVar"} -> TRUE
          [] t.node = "Named" -> all(t.generics)
          [] t.node = "Array" -> resolved(t.element)
          [] t.node = "Tuple" -> all(t.elements)
          [] t.node = "Function" -> all(t.params) /\ resolved(t.return_type)
          [] OTHER -> FALSE

Checked(expected, actual) ==
    /\ sema.pc = "checked"
    /\ erase(sema.expected) = erase(expected)
    /\ erase(sema.actual) = erase(actual)

IntType == PrimitiveAt("int", 1)

BoolType == PrimitiveAt("bool", 1)

\* C14: check_type_compatibility is symmetric and is equality of the two
\* types up to their spans (names by text, lists by length and pointwise,
\* arrays by element and size) on types made of Primitive, TypeVar, Named,
\* Array, Tuple and Function, while a type that holds Type::Error is
\* compatible with no type, itself included; types of different shapes are
\* never compatible; `int` is compatible with `int` and not with `float`, and
\* `Pair<int, bool>` with `Pair<int, bool>` and with neither `Pair<int, int>`
\* nor `Other<int, bool>`.
C14_StructuralEquality ==
    sema.pc = "checked" =>
        /\ sema.result = check_type_compatibility(sema.actual, sema.expected)
        /\ sema.result <=>
              /\ resolved(sema.expected)
              /\ resolved(sema.actual)
              /\ erase(sema.expected) = erase(sema.actual)
        /\ sema.expected.node /= sema.actual.node => ~sema.result
        /\ Checked(IntType, IntType) => sema.result
        /\ Checked(IntType, PrimitiveAt("float", 1)) => ~sema.result
        /\ Checked(NamedAt("Pair", <<IntType, BoolType>>, 1),
                   NamedAt("Pair", <<IntType, BoolType>>, 1)) => sema.result
        /\ Checked(NamedAt("Pair", <<IntType, BoolType>>, 1),
                   NamedAt("Pair", <<IntType, IntType>>, 1)) => ~sema.result
        /\ Checked(NamedAt("Pair", <<IntType, BoolType>>, 1),
                   NamedAt("Other", <<IntType, BoolType>>, 1)) => ~sema.result

\* C14 as stated, for every type: two types are compatible exactly when they
\* are structurally equal.
C14_EqualityOnEveryType ==
    sema.pc = "checked" =>
        (sema.result <=> erase(sema.expected) = erase(sema.actual))

\* `Pair<int, bool>` has been found compatible with a `Pair<int, bool>` whose
\* `int` is written at another place.
C14_Witness ==
    /\ sema.pc = "checked"
    /\ sema.expected = NamedAt("Pair", <<PrimitiveAt("int", 1), BoolType>>, 1)
    /\ sema.actual = NamedAt("Pair", <<PrimitiveAt("int", 7), BoolType>>, 1)
    /\ sema.result

(***************************************************************************)
(* Claims about the passes and their tables                                *)
(***************************************************************************)
\* The declarations that a pass registers under a name of their own.
Named(decl) ==
    \/ decl.kind \in {"Function", "Struct", "Enum"}
    \/ decl.kind = "Statement" /\ decl.item.node = "Let"

DistinctNames(module) ==
    \A i, j \in DOMAIN module :
        (i /= j /\ Named(module[i]) /\ Named(module[j]))
            => module[i].item.name.lexeme /= module[j].item.name.lexeme

\* The symbol a table resolves the name to is of the kind.
Resolves(table, name, kind) ==
    /\ SymbolTable_get(table, name) /= None
    /\ SymbolTable_get(table, name).kind = kind

Absent(tables, name) == \A table \in tables : SymbolTable_get(table, name) = None

\* What the population pass owes to one declaration.
Registered(table, decl) ==
    LET name == decl.item.name.lexeme
    IN  CASE decl.kind = "Function" ->
                /\ Resolves(table.values, name, "Function")
                /\ Absent({table.types, table.enum_variants, table.struct_fields}, name)
          [] decl.kind = "Struct" ->
                /\ Resolves(table.types, name, "Struct")
                /\ SymbolTable_get(table.types, name).struct_fields = decl.item.fields
                /\ Absent({table.values, table.enum_variants, table.struct_fields}, name)
          [] decl.kind = "Enum" ->
                /\ Resolves(table.types, name, "Enum")
                /\ SymbolTable_get(table.types, name).enum_variants = decl.item.variants
                /\ Absent({table.values, table.enum_variants, table.struct_fields}, name)
          [] OTHER -> TRUE

\* C15: the population pass over a module whose declarations have distinct
\* names returns, and when it returns table.values resolves every function
\* name to a Function symbol and table.types every struct name to a Struct
\* symbol with the struct's fields and every enum name to an Enum symbol with
\* the enum's variants, and none of these names is held by another table.
C15_ModuleRegistered ==
    /\ [][(sema.pc = "populate" /\ DistinctNames(sema.module))
             => sema'.pc /= "overflow"]_vars
    /\ [][(sema.pc = "populate" /\ sema'.pc = "typecheck" /\ DistinctNames(sema.module))
             => \A k \in DOMAIN sema.module :
                    Registered(sema'.table, sema.module[k])]_vars

TableNamesOfStages == {"types", "values", "enum_variants", "struct_fields"}

\* C18: while and after the population pass and the type-checking pass run,
\* each of the four tables holds at least one scope; a step never takes the
\* last scope of a table away, and never takes away a scope that the passes
\* did not enter before; so every insert of a pass finds a scope.
C18_BaseScopeKept ==
    /\ [](\A stage \in TableNamesOfStages : Len(sema.table[stage].scopes) >= 1)
    /\ [][\A stage \in TableNamesOfStages :
             Len(sema'.table[stage].scopes) < Len(sema.table[stage].scopes)
                 => /\ Len(sema.table[stage].scopes) >= 2
                    /\ Len(sema.stack) >= 1]_vars

\* The type checker is inside visit_function of `f`, on the table the
\* population pass has left: the scopes it entered are open above the base
\* scope and the parameter inserted last is found.
C18_Witness ==
    /\ sema.pc = "typecheck"
    /\ Len(sema.stack) >= 1
    /\ Len(sema.table.values.scopes) >= 2
    /\ Len(sema.table.types.scopes) = 1
    /\ Resolves(sema.table.values, "a", "Parameter")

(***************************************************************************)
(* THE LEXER OF AN INTERPOLATED EXPRESSION (string_interpolation.rs)       *)
(*                                                                         *)
(* The closure handed to tokenize_interpolations: a fresh Lexer on the     *)
(* text of the expression, set_offset(offset, line), scan_tokens, and the  *)
(* trailing Eof popped.  parser holds what the closure was called with.    *)
(***************************************************************************)
\* set_offset with the columns counted from 0, as the offset itself is.
Lexer_set_offset_from_zero(L, offset, line) ==
    [L EXCEPT !.start = 0, !.current = 0, !.col = offset,
              !.col_start = offset, !.col_end = offset, !.line = line]

Lexer_set_offset(L, offset, line) ==
    [L EXCEPT !.start = 0, !.current = 0, !.col = offset + 1,
              !.col_start = offset + 1, !.col_end = offset + 1, !.line = line]

\* The offsets and lines of the interpolations.
Offsets == {0, 9}

Lines == {1, 2}

\* The texts of one line.
SingleLineSources ==
    {Bytes(chars) : chars \in SeqsUpTo(SourceChars \ {"\n"}, MaxSourceLen)}

InitOffset ==
    /\ \E src \in SingleLineSources, offset \in Offsets, line \in Lines :
          /\ lexer = Lexer_set_offset(Lexer_new(src), offset, line)
          /\ parser = [pc |-> "interpolation", offset |-> offset, line |-> line]
    /\ sema = IdleSema

\* if let Some(Token { kind: Eof, .. }) = tokens.last() { tokens.pop(); }
StripEof ==
    /\ lexer.pc = "done"
    /\ lexer' = [lexer EXCEPT
                    !.pc = "stripped",
                    !.tokens = IF @ /= <<>> /\ Last(@).kind = "Eof"
                               THEN SubSeq(@, 1, Len(@) - 1) ELSE @]
    /\ UNCHANGED <<parser, sema>>

NextOffset ==
    \/ ScanToken
    \/ AddEof
    \/ ReportError
    \/ ScanReturn
    \/ StripEof

SpecOffset == InitOffset /\ [][NextOffset]_vars

(***************************************************************************)
(* Claims about set_offset                                                 *)
(***************************************************************************)
RECURSIVE scan_tokens(_)
\* scan_tokens up to and with add_token(Eof), in one step.
scan_tokens(L) ==
    IF L.pc = "panic" THEN L
    ELSE IF Lexer_is_at_end(L) THEN add_token(L, "Eof")
    ELSE scan_tokens(scan_token([L EXCEPT !.start = L.current,
                                          !.col_start = L.col_end]))

\* The token moved by offset columns to the line.
shifted(token, offset, line) ==
    Token_new(token.kind, token.lexeme, line,
              Span_new(token.span.start + offset, token.span.end + offset))

\* C16: the tokens of a text of one line lexed after set_offset(o, l) are the
\* tokens of the same text lexed by a fresh Lexer, each on line l and with
\* its span shifted by o, and after the trailing Eof is dropped they are the
\* tokens of the expression, none of them an Eof.
C16_OffsetShiftsSpans ==
    LET fresh == scan_tokens(Lexer_new(lexer.source)).tokens
        moved(tokens) == [i \in DOMAIN tokens |->
                             shifted(tokens[i], parser.offset, parser.line)]
    IN  /\ (parser.pc = "interpolation" /\ lexer.pc \in {"report", "done"})
              => lexer.tokens = moved(fresh)
        /\ (parser.pc = "interpolation" /\ lexer.pc = "stripped")
              => /\ lexer.tokens = moved(SubSeq(fresh, 1, Len(fresh) - 1))
                 /\ \A i \in DOMAIN lexer.tokens : lexer.tokens[i].kind /= "Eof"

\* The identifier `a1_` at offset 9 of a string on line 2 has got the span
\* [10, 13) and the line 2, and the Eof after it is dropped.
C16_Witness ==
    /\ parser.pc = "interpolation"
    /\ lexer.pc = "stripped"
    /\ parser.offset = 9
    /\ parser.line = 2
    /\ Len(lexer.tokens) = 1
    /\ lexer.tokens[1].kind = "Identifier"
    /\ Len(lexer.tokens[1].lexeme) = 3
    /\ lexer.tokens[1].line = 2
    /\ lexer.tokens[1].span = Span_new(10, 13)

(***************************************************************************)
(* LISTS AT THE LIMIT OF 255 (parser.rs)                                   *)
(*                                                                         *)
(* The parser on a function declaration with n parameters and on a call    *)
(* with n arguments, for n around MaxParameters.                           *)
(***************************************************************************)
\* words, n times, with `,` between two of them
Listed(words, n) ==
    [i \in 1..(n * (Len(words) + 1) - 1) |->
        IF (i - 1) % (Len(words) + 1) = Len(words) THEN Kw("Comma")
        ELSE words[((i - 1) % (Len(words) + 1)) + 1]]

\* func f ( a : int , ... a : int ) { }
ParameterWords(n) ==
    <<Kw("Func"), Id("f"), Kw("Lparen")>> \o Listed(<<Id("a"), Kw("Colon"), IdInt>>, n)
        \o <<Kw("Rparen"), Kw("Lbrace"), Kw("Rbrace")>>

\* f ( 1 , ... 1 ) ;
ArgumentWords(n) ==
    <<Id("f"), Kw("Lparen")>> \o Listed(<<Num("1")>>, n) \o <<Kw("Rparen"), Kw("Semicolon")>>

ListLengths ==
    {1, 2, MaxParameters - 1, MaxParameters, MaxParameters + 1, MaxParameters + 2}

LimitSources ==
    {<<Header, ParameterWords(n)>> : n \in ListLengths}
    \cup {<<Header, ArgumentWords(n)>> : n \in ListLengths}

InitLimit ==
    /\ parser \in {Parser_new(Layout(Flatten(source)), source) : source \in LimitSources}
    /\ lexer = IdleLexer
    /\ sema = IdleSema

NextLimit ==
    \/ StepParse
    \/ StepDeclaration
    \/ StepStatement
    \/ StepOperator
    \/ StepPostfix
    \/ StepPrimary

SpecLimit == InitLimit /\ [][NextLimit]_vars

(***************************************************************************)
(* Claims about the limit                                                  *)
(***************************************************************************)
\* The entries of the list written in the source: one more than its commas.
entries_written ==
    1 + Cardinality({i \in DOMAIN parser.source[2] : parser.source[2][i].kind = "Comma"})

count_diagnostics ==
    {i \in DOMAIN parser.diagnostics :
        parser.diagnostics[i] \in {"Too many parameters, maximum is 255",
                                   "Cannot have more than 255 arguments"}}

\* C21: once the parser has ended, a parameter list and an argument list of
\* 255 entries or fewer have given no diagnostic about the count, and a list
\* of 256 entries or more has given one.
C21_LimitExact ==
    Ended =>
        /\ entries_written <= MaxParameters => count_diagnostics = {}
        /\ entries_written >= MaxParameters + 1 => count_diagnostics /= {}

(***************************************************************************)
(* More claims about the lexer (checked under SpecLex)                     *)
(***************************************************************************)
\* The text is a letter followed by letters, digits and `_`.
word_shaped(text) ==
    /\ text /= <<>>
    /\ is_alphabetic(text[1])
    /\ \A i \in 2..Len(text) : is_alphanumeric(text[i]) \/ text[i] = "_"

\* C22: when scan_tokens has returned, a `_` that stands alone in the source
\* is one token of kind Underscore, and every token before the Eof whose text
\* is a word has the kind the keyword table gives for the word, Identifier
\* when the table does not hold it.
C22_UnderscoreToken ==
    lexer.pc = "done" =>
        /\ (Len(lexer.tokens) = 2 /\ lexer.tokens[1].lexeme = <<"_">>)
              => lexer.tokens[1].kind = "Underscore"
        /\ \A i \in DOMAIN lexer.tokens :
              (word_shaped(lexer.tokens[i].lexeme) /\ lexer.tokens[i].kind /= "Eof")
                  => lexer.tokens[i].kind = keyword_kind(lexer.tokens[i].lexeme)

(***************************************************************************)
(* THE INFERENCE OF A CALL (type_checker.rs)                               *)
(*                                                                         *)
(* infer_type on a call expression, in a checker whose value table holds   *)
(* g: (int, bool) -> int, h: () -> int and v: int; u is bound nowhere.     *)
(***************************************************************************)
\* The bound on the number of arguments of a call.
MaxArguments == 3

CallSpan == Span_new(3, 9)

CallValues ==
    insert_all(SymbolTable_new,
        <<Symbol_new("g", "Variable",
                     Type_Function(<<PrimitiveAt("int", 1), PrimitiveAt("bool", 6)>>,
                                   PrimitiveAt("int", 15), Span_new(1, 18)),
                     Span_new(1, 2), None, None),
          Symbol_new("h", "Variable",
                     Type_Function(<<>>, PrimitiveAt("int", 7), Span_new(1, 10)),
                     Span_new(1, 2), None, None),
          Symbol_new("v", "Variable", PrimitiveAt("int", 1), Span_new(1, 2), None, None)>>)

Name(lexeme) == Expr_Identifier(NamedToken(lexeme, 1), Span_new(1, 2))

Callees == {Name("g"), Name("h"), Name("v"), Name("u")}

Arguments ==
    {Expr_Literal(Literal_Integer(1, Span_new(5, 6))),
     Expr_Literal(Literal_Bool(TRUE, Span_new(5, 9))),
     Name("v"), Name("u")}

InitCall ==
    /\ \E callee \in Callees, args \in SeqsUpTo(Arguments, MaxArguments) :
          sema = [pc |-> "infer", values |-> CallValues,
                  expr |-> Expr_Call(callee, args, <<>>, CallSpan),
                  errors |-> <<>>, ty |-> None]
    /\ lexer = IdleLexer
    /\ parser = IdleParser

InferType ==
    /\ sema.pc = "infer"
    /\ LET r == infer_type(sema.values, sema.errors, sema.expr)
       IN  sema' = [sema EXCEPT !.pc = "inferred", !.errors = r.errors, !.ty = r.ty]
    /\ UNCHANGED <<lexer, parser>>

NextCall == InferType

SpecCall == InitCall /\ [][NextCall]_vars

(***************************************************************************)
(* Claims about the inference of a call                                    *)
(***************************************************************************)
\* The diagnostics of the list whose message starts with the text.
diagnostics_of(errors, text) == {i \in DOMAIN errors : errors[i].message[1] = text}

\* The type infer_type gives the expression in the table of the calls.
type_in_call(expr) == infer_type(CallValues, <<>>, expr).ty

\* The arguments of the call whose type is known and does not fit the
\* parameter type at their place.
incompatible_arguments(e) ==
    {k \in DOMAIN e.args :
        /\ type_in_call(e.args[k]) /= None
        /\ ~check_type_compatibility(type_in_call(e.callee).params[k],
                                     type_in_call(e.args[k]))}

\* C23: a call whose callee infers to a Function type adds exactly one arity
\* diagnostic when the number of arguments differs from the number of
\* parameter types, and otherwise one mismatch diagnostic for each argument
\* whose type does not fit its parameter type; a callee that does not infer
\* to a Function type adds one "not callable" diagnostic.
C23_CallDiagnostics ==
    sema.pc = "inferred" =>
        LET callee == type_in_call(sema.expr.callee)
            arity == diagnostics_of(sema.errors, "Expected arguments, got")
            mismatch == diagnostics_of(sema.errors, "Type mismatch in function call")
            uncallable == diagnostics_of(sema.errors, "Expression is not callable")
        IN  IF callee.node /= "Function"
            THEN Cardinality(uncallable) = 1 /\ arity = {} /\ mismatch = {}
            ELSE IF Len(callee.params) /= Len(sema.expr.args)
            THEN Cardinality(arity) = 1 /\ mismatch = {} /\ uncallable = {}
            ELSE /\ Cardinality(mismatch) = Cardinality(incompatible_arguments(sema.expr))
                 /\ arity = {}
                 /\ uncallable = {}

(***************************************************************************)
(* More claims about the passes (checked under SpecSema)                   *)
(***************************************************************************)
\* The type checker is between two declarations of the module.
BetweenDeclarations == sema.pc \in {"typecheck", "done"} /\ sema.stack = <<>>

\* C24: TypeChecker.visit_function returns; while it visits a function,
\* current_return_type is the declared return type of that function, and
\* between two declarations it is None again, the value it had before the
\* visit; a `return` outside every function is not reported.
C24_ReturnTypeRestored ==
    /\ [][(sema.pc = "typecheck" /\ LiveActivations("visit_function") /= <<>>)
             => sema'.pc /= "overflow"]_vars
    /\ [](sema.pc = "typecheck" =>
             /\ LiveActivations("visit_function") /= <<>>
                   => sema.current_return_type
                         = Last(LiveActivations("visit_function")).function.return_type
             /\ BetweenDeclarations => sema.current_return_type = None)
    /\ [](sema.pc \in {"typecheck", "done", "overflow"} =>
             \A k \in DOMAIN sema.errors :
                 sema.errors[k].message[1] = "Return type mismatch"
                     => \E j \in DOMAIN sema.module : functions_of(sema.module[j]) /= <<>>)

\* The checker is inside visit_function of a function whose body starts with
\* `let t: int = 1;` and goes on with `return t;`.
InBodyWithLet ==
    /\ sema.pc = "typecheck"
    /\ LiveActivations("visit_function") /= <<>>
    /\ Last(LiveActivations("visit_function")).function.name.lexeme = "l"

\* `t`, as the body uses it.
LocalT == Expr_Identifier(Ident("t", 1, 42), Span_new(42, 43))

\* C27: the type checker's visit of a function returns, so that its body is
\* visited, and inside a function whose body binds t with `let t: int`
\* before it uses t, infer_type answers for t with the type int and reports
\* no "Undefined variable".
C27_LocalResolves ==
    /\ [][InBodyWithLet => sema'.pc /= "overflow"]_vars
    /\ [](InBodyWithLet =>
             /\ infer_type(sema.table.values, <<>>, LocalT).errors = <<>>
             /\ infer_type(sema.table.values, <<>>, LocalT).ty.node = "Primitive"
             /\ infer_type(sema.table.values, <<>>, LocalT).ty.name.lexeme = "int")

\* The names of the functions a module declares at top level.
TopLevelFunctions(module) ==
    {module[k].item.name.lexeme : k \in {j \in DOMAIN module : module[j].kind = "Function"}}

\* The names the base scope of a table binds to a symbol of the kind.
BaseScope(table, kind) ==
    {name \in DOMAIN table.scopes[1] : table.scopes[1][name].kind = kind}

\* C29: the population pass over a module returns, and in every state of the
\* passes the names that the base scope of the value table binds to a
\* Function symbol are names of top-level function declarations of the
\* module: the method of a trait or extend block is not among them.
C29_MethodsKeptOut ==
    /\ [][sema.pc = "populate" => sema'.pc /= "overflow"]_vars
    /\ [](BaseScope(sema.table.values, "Function") \subseteq TopLevelFunctions(sema.module))

\* The characters of the line of source that come before the offset (0-based).
before_on_line(source, offset) ==
    LET breaks == {i \in 1..offset : source[i] = "\n"}
        from == IF breaks = {} THEN 0
                ELSE CHOOSE i \in breaks : \A j \in breaks : j <= i
    IN  Cardinality({i \in (from + 1)..offset : source[i] /= CONT})

\* The step scans a token, other than the Eof, into the list.
TokenScanned ==
    /\ lexer.pc = "scan"
    /\ lexer'.pc = "scan"
    /\ Len(lexer'.tokens) = Len(lexer.tokens) + 1

\* C30: a token scanned at the k-th character of its line has the span.start
\* that Lexer::new gives the k-th character of the first line, which is k,
\* whatever the line is and whatever was scanned before it.
C30_SpanByLinePosition ==
    [][TokenScanned =>
          Last(lexer'.tokens).span.start = before_on_line(lexer.source, lexer'.start) + 1]_vars

\* C26: a file that holds the one statement `x = 1;` or `x += 1;` parses
\* without a diagnostic to one expression statement that holds an Assignment
\* whose left is the identifier x, whose operator is the one written and
\* whose right is the literal 1.
C26_PlainAssignment ==
    (Ended /\ OneStatementOf(AssignmentWords)) =>
        /\ parser.pc = "done"
        /\ parser.errors = 0
        /\ Len(parser.module.stmts) = 1
        /\ parser.module.stmts[1].item.node = "Expr"
        /\ parser.module.stmts[1].item.expr.node = "Assignment"
        /\ shape(parser.module.stmts[1].item.expr.left) = <<"Identifier", "x">>
        /\ parser.module.stmts[1].item.expr.op.lexeme = parser.source[2][2].lexeme
        /\ shape(parser.module.stmts[1].item.expr.right) = operand_shape(Num("1"))

\* The generic arguments written directly before the `(` at words[i]: the
\* names between `<` and `>` when a `>` comes before the `(`, none otherwise.
written_generics(words, i) ==
    IF i > 3 /\ words[i - 1].kind = "Gt" THEN <<words[i - 2].lexeme>> ELSE <<>>

\* The names of the types of a list of generic arguments.
generic_names(generics) == [k \in DOMAIN generics |-> generics[k].name.lexeme]

\* The places of the first and of the second `(` of a chain of two calls.
FirstParen(words) == CHOOSE i \in DOMAIN words :
    words[i].kind = "Lparen" /\ \A j \in 1..(i - 1) : words[j].kind /= "Lparen"

SecondParen(words) == CHOOSE i \in DOMAIN words :
    words[i].kind = "Lparen" /\ i > FirstParen(words)

\* C28: a chain of two calls, `f<T>(x)(y);` or `f(x)(y);`, parses without a
\* diagnostic to a Call whose callee is a Call, and each of the two has as
\* generic_args the arguments written directly before its own `(`: [T] or
\* none for the inner one, none for the outer one.
C28_GenericsOfOwnCall ==
    (Ended /\ OneStatementOf(CallChainWords)) =>
        /\ parser.pc = "done"
        /\ parser.errors = 0
        /\ Len(parser.module.stmts) = 1
        /\ parser.module.stmts[1].item.expr.node = "Call"
        /\ parser.module.stmts[1].item.expr.callee.node = "Call"
        /\ generic_names(parser.module.stmts[1].item.expr.callee.generic_args)
              = written_generics(parser.source[2], FirstParen(parser.source[2]))
        /\ generic_names(parser.module.stmts[1].item.expr.generic_args)
              = written_generics(parser.source[2], SecondParen(parser.source[2]))

RECURSIVE depth_marked(_, _)
\* What generic_stack was while a type was parsed, as the type shows it: a
\* name without generics of its own is a TypeVar when it was read inside a
\* list (generic_stack > 0) and a Named when it was read outside of every
\* list (generic_stack = 0); inside tells which of the two the type is
\* expected to show.
depth_marked(ty, inside) ==
    CASE ty.node = "TypeVar" -> inside
      [] ty.node = "Named" ->
            /\ ty.generics = <<>> => ~inside
            /\ \A k \in DOMAIN ty.generics : depth_marked(ty.generics[k], TRUE)
      [] ty.node = "Array" -> depth_marked(ty.element, inside)
      [] ty.node = "Tuple" -> \A k \in DOMAIN ty.elements : depth_marked(ty.elements[k], inside)
      [] ty.node = "Function" ->
            /\ \A k \in DOMAIN ty.params : depth_marked(ty.params[k], inside)
            /\ depth_marked(ty.return_type, inside)
      [] OTHER -> TRUE

\* The types a declaration of the module holds outside of every list, and
\* the types of its lists of generic parameters.
types_outside(decl) ==
    CASE decl.kind = "Struct" -> {decl.item.fields[k].ty : k \in DOMAIN decl.item.fields}
      [] decl.kind = "Statement" /\ decl.item.node = "Let" ->
            {decl.item.ty} \ {None}
      [] OTHER -> {}

types_inside(decl) ==
    CASE decl.kind \in {"Struct", "Trait"} ->
            {decl.item.generics[k] : k \in DOMAIN decl.item.generics}
      [] decl.kind = "Extend" ->
            {decl.item.first_generics[k] : k \in DOMAIN decl.item.first_generics}
            \cup {decl.item.second_generics[k] : k \in DOMAIN decl.item.second_generics}
      [] OTHER -> {}

\* C25: between two steps of the parser, each of which reads the lists of
\* generic parameters and arguments it meets to their ends, generic_stack is
\* 0 and type_var_only is false, so they are when Parser.declaration starts
\* a top-level declaration, with or without diagnostics reported before;
\* and in the module parse returns, a type read outside of every list
\* shows generic_stack = 0 and a type read inside a list shows
\* generic_stack > 0.
C25_GenericDepth ==
    /\ parser.pc \in {"run", "done"} =>
          /\ parser.generic_stack = 0
          /\ parser.type_var_only = FALSE
    /\ parser.pc = "done" =>
          \A k \in DOMAIN parser.module.stmts :
              /\ \A ty \in types_outside(parser.module.stmts[k]) : depth_marked(ty, FALSE)
              /\ \A ty \in types_inside(parser.module.stmts[k]) : depth_marked(ty, TRUE)

\* Parser.declaration starts the declaration after `struct A < 1 > { }`,
\* whose list of generic parameters was closed after three diagnostics.
C25_Witness ==
    /\ DeclarationStarts
    /\ parser.errors > 0
    /\ parser.current > 0
    /\ \E i \in 1..parser.current : parser.tokens[i].kind = "Lt"
    /\ \E i \in 1..parser.current : parser.tokens[i].kind = "Gt"

====
